---- MODULE Spec2Model ----
(***************************************************************************)
(* Topic Graph Engine of twitter-topic-modeling: TopicManager (normalizer, *)
(* registry, synonym table, relationship graph, interest scorer, merge)    *)
(* modelled as a state machine.  Strings are sequences of one-character    *)
(* strings, so that normalizeTopic is computed character by character as   *)
(* the source does.                                                        *)
(***************************************************************************)
EXTENDS Integers, Sequences, FiniteSets, TLC

VARIABLES
    coreTopics,          \* Set<string>
    discoveredTopics,    \* Map<string, TopicMetadata>: key -> record
    topicOrder,          \* insertion order of the keys of discoveredTopics
    topicRelationships,  \* Map<string, Map<string, number>>
    synonyms,            \* Map<string, string>: variant -> canonical
    lastCall,            \* the operation that ran last, its arguments and result
    steps,               \* number of operations called so far
    cached,              \* the snapshot last handed to runtime.cacheManager
    discovery,           \* the pending discoverTopicsFromText call, if any
    boot,                \* the loads of the constructor and of initialize()
    pass,                \* the pending findAndExecuteMerges call, if any
    saving,              \* the writes of saveTopics the store has not completed
    textBuffer,          \* GuidedTopicManager.textBuffer: the texts queued
    processingBatch,     \* GuidedTopicManager.processingBatch
    queued,              \* number of texts queued so far; text n is the n-th
    flushes,             \* the processBatch calls that have not returned to their caller
    guided,              \* the pending GuidedTopicManager.discoverTopicsFromText call
    requests,            \* the discoverTopics requests sent to the Python service
    normIn,              \* normalizer check: the raw input string
    normOut,             \* normalizer check: results of normalizeTopic
    client,              \* PythonServiceClient: isConnected, connecting, serviceProcess
    service,             \* the Python service: whether one answers on the port
    calls                \* the start() and discoverTopics() calls made on the client

vars == <<coreTopics, discoveredTopics, topicOrder, topicRelationships,
          synonyms, lastCall, steps, cached, discovery, boot, pass,
          saving, textBuffer, processingBatch, queued, flushes, guided,
          requests, normIn, normOut, client, service, calls>>

regVars == <<coreTopics, discoveredTopics, topicOrder, topicRelationships,
             synonyms, lastCall, steps, cached, discovery, boot, pass,
             saving, textBuffer, processingBatch, queued, flushes, guided,
             requests, client, service, calls>>

normVars == <<normIn, normOut>>

clientVars == <<client, service, calls>>

\* what the client leaves alone: the registry and the intake
regState == <<coreTopics, discoveredTopics, topicOrder, topicRelationships,
              synonyms, lastCall, steps, cached, discovery, boot, pass,
              saving, textBuffer, processingBatch, queued, flushes, guided,
              requests>>

guidedVars == <<textBuffer, processingBatch, queued, flushes, guided, requests>>

-----------------------------------------------------------------------------
(* Bounds *)

\* longest raw string fed to normalizeTopic in the normalizer specification
MaxLen == 5

\* most operations called on one registry (it caps every counter and strength)
MaxSteps == 3

\* most initial topics of a configuration
MaxInit == 2

\* longest topic list of one observation
MaxObs == 3

\* longest topic list returned by one extraction
MaxExtract == 1

\* the number of observations two topics co-occur in before a merge pass
CoOccurrences == 12

-----------------------------------------------------------------------------
(* Strings *)

\* null: a value no string equals
null == <<"null">>

LowerLetters ==
    <<"a", "b", "c", "d", "e", "f", "g", "h", "i", "j", "k", "l", "m",
      "n", "o", "p", "q", "r", "s", "t", "u", "v", "w", "x", "y", "z">>

UpperLetters ==
    <<"A", "B", "C", "D", "E", "F", "G", "H", "I", "J", "K", "L", "M",
      "N", "O", "P", "Q", "R", "S", "T", "U", "V", "W", "X", "Y", "Z">>

Digits == {"0", "1", "2", "3", "4", "5", "6", "7", "8", "9"}

toLowerCaseChar(c) ==
    IF \E i \in 1..26 : UpperLetters[i] = c
    THEN LowerLetters[CHOOSE i \in 1..26 : UpperLetters[i] = c]
    ELSE c

toLowerCase(s) == [i \in 1..Len(s) |-> toLowerCaseChar(s[i])]

\* \s of a JavaScript regular expression, and the characters trim() removes
IsSpace(c) == c \in {" ", "\t", "\n", "\r", "\f"}

\* \w of a JavaScript regular expression: [A-Za-z0-9_]
IsWordChar(c) ==
    \/ \E i \in 1..26 : c = LowerLetters[i] \/ c = UpperLetters[i]
    \/ c \in Digits
    \/ c = "_"

RECURSIVE trimStart(_)
trimStart(s) == IF s # <<>> /\ IsSpace(Head(s)) THEN trimStart(Tail(s)) ELSE s

RECURSIVE trimEnd(_)
trimEnd(s) ==
    IF s # <<>> /\ IsSpace(s[Len(s)]) THEN trimEnd(SubSeq(s, 1, Len(s) - 1)) ELSE s

trim(s) == trimEnd(trimStart(s))

\* replace(/\s+/g, ' ')
RECURSIVE collapseWhitespace(_)
collapseWhitespace(s) ==
    IF s = <<>> THEN <<>>
    ELSE IF IsSpace(Head(s))
         THEN <<" ">> \o collapseWhitespace(trimStart(s))
         ELSE <<Head(s)>> \o collapseWhitespace(Tail(s))

\* replace(/[^\w\s]/g, '')
LOCAL KeepChar(c) == IsWordChar(c) \/ IsSpace(c)
stripSpecial(s) == SelectSeq(s, KeepChar)

\* split(' '): "" splits to [""], and every single space separates two words
RECURSIVE split(_)
split(s) ==
    IF \A i \in 1..Len(s) : s[i] # " " THEN <<s>>
    ELSE LET p == CHOOSE i \in 1..Len(s) :
                     s[i] = " " /\ \A j \in 1..(i - 1) : s[j] # " "
         IN  <<SubSeq(s, 1, p - 1)>> \o split(SubSeq(s, p + 1, Len(s)))

\* join(' ')
RECURSIVE join(_)
join(words) ==
    IF words = <<>> THEN <<>>
    ELSE IF Len(words) = 1 THEN words[1]
    ELSE words[1] \o <<" ">> \o join(Tail(words))

stopWords ==
    { <<"a">>, <<"a", "n">>, <<"t", "h", "e">>, <<"a", "n", "d">>, <<"o", "r">>,
      <<"b", "u", "t">>, <<"o", "f">>, <<"f", "o", "r">>, <<"i", "n">>,
      <<"o", "n">>, <<"a", "t">>, <<"t", "o">> }

LOCAL NotStopWord(w) == w \notin stopWords

\* steps 1 to 4 of normalizeTopic
cleanTopic(topic) == stripSpecial(collapseWhitespace(trim(toLowerCase(topic))))

\* step 5 of normalizeTopic
removeStopWords(cleaned) ==
    LET words == split(cleaned)
    IN  join(IF Len(words) > 1 THEN SelectSeq(words, NotStopWord) ELSE words)

normalizeTopic(topic) == removeStopWords(cleanTopic(topic))

-----------------------------------------------------------------------------
(* Inputs *)

\* raw topic strings handed to the public operations: "x y", "y x", "z" and
\* "a Z" (three keys under four spellings)
RawTopics == { <<"x", " ", "y">>, <<"y", " ", "x">>, <<"z">>, <<"a", " ", "Z">> }

\* the characters of the strings of the normalizer specification
Alphabet == {"a", "x", "X", " ", "\t", "-"}

SeqsUpTo(S, n) == UNION {[1..k -> S] : k \in 0..n}

Keys == {normalizeTopic(t) : t \in RawTopics}

\* the topic lists of an observation: lists of distinct strings, as
\* TwitterConnector.processTweets builds them ([...new Set(...)])
Observations ==
    {topics \in SeqsUpTo(RawTopics, MaxObs) :
        \A i, j \in 1..Len(topics) : topics[i] = topics[j] => i = j}

\* the topics asked of findSimilarTopic: "x", "w", "y x z" and "x y"
Candidates ==
    { <<"x">>, <<"w">>, <<"y", " ", "x", " ", "z">>, <<"x", " ", "y">> }

\* the thresholds asked of findSimilarTopic, in hundredths
Thresholds == {0, 50, 85}

\* the similarities the oracle reports, in hundredths
OracleScores == {84, 85}

\* the keys "t000", "t001", ... of a registry of n topics
ManyTopics(n) ==
    [i \in 1..n |-> <<"t", ToString((i - 1) \div 100),
                       ToString(((i - 1) \div 10) % 10), ToString((i - 1) % 10)>>]

\* normalizeTopic of the strings the registry operations receive, computed once
NormalizedInputs == [t \in RawTopics \cup Keys \cup Candidates |-> normalizeTopic(t)]

norm(topic) ==
    IF topic \in DOMAIN NormalizedInputs THEN NormalizedInputs[topic]
    ELSE normalizeTopic(topic)

-----------------------------------------------------------------------------
(* The registry: the four collections of a TopicManager, as one record *)

Registry ==
    [coreTopics         |-> coreTopics,
     discoveredTopics   |-> discoveredTopics,
     topicOrder         |-> topicOrder,
     topicRelationships |-> topicRelationships,
     synonyms           |-> synonyms]

EmptyMap == [k \in {} |-> 0]

\* Map.set on a map modelled as a function
MapSet(m, k, v) == [x \in DOMAIN m \cup {k} |-> IF x = k THEN v ELSE m[x]]

\* Map.delete
MapDelete(m, k) == [x \in DOMAIN m \ {k} |-> m[x]]

\* relationships.get(k) || 0
Strength(row, k) == IF k \in DOMAIN row THEN row[k] ELSE 0

Range(s) == {s[i] : i \in 1..Len(s)}

SeqContains(s, x) == \E i \in 1..Len(s) : s[i] = x

SeqRemove(s, x) == SelectSeq(s, LAMBDA y : y # x)

\* Array.from(new Set(s)): first occurrences, in order
RECURSIVE Dedup(_)
Dedup(s) ==
    IF s = <<>> THEN <<>>
    ELSE LET front == Dedup(SubSeq(s, 1, Len(s) - 1))
         IN  IF SeqContains(front, s[Len(s)]) THEN front
             ELSE Append(front, s[Len(s)])

\* this.synonyms.get(normalized) || normalized  (an empty string is falsy)
getCanonicalTopic(r, topic) ==
    LET canonical(normalized) ==
            IF normalized \in DOMAIN r.synonyms /\ r.synonyms[normalized] # <<>>
            THEN r.synonyms[normalized]
            ELSE normalized
    IN  canonical(norm(topic))

hasTopic(r, topic) ==
    LET normalized == norm(topic)
    IN  normalized \in DOMAIN r.discoveredTopics \/ normalized \in DOMAIN r.synonyms

\* Interest levels are in hundredths.  updateInterestLevel runs right after
\* lastUpdated is set to Date.now(), so its recency factor exp(-0.1 * 0) is 1.
Min(a, b) == IF a < b THEN a ELSE b
Max(a, b) == IF a > b THEN a ELSE b

updateInterestLevel(metadata) ==
    LET recency10   == 10
        frequency10 == Min(10, metadata.observationCount)
    IN  IF metadata.isCore
        THEN [metadata EXCEPT !.interestLevel = Max(70, 3 * recency10 + 7 * frequency10)]
        ELSE [metadata EXCEPT !.interestLevel = 6 * recency10 + 4 * frequency10]

\* addTopic that writes a fresh record also over a record it finds
addTopicOverwrites(r, topic, isCore) ==
    LET create(normalizedTopic) ==
            [r EXCEPT
                !.discoveredTopics = MapSet(@, normalizedTopic,
                    [isCore           |-> isCore,
                     interestLevel    |-> IF isCore THEN 100 ELSE 50,
                     observationCount |-> 0,
                     mentionCount     |-> 0,
                     relatedTopics    |-> <<>>]),
                !.topicOrder = IF SeqContains(@, normalizedTopic) THEN @
                               ELSE Append(@, normalizedTopic),
                !.coreTopics = IF isCore THEN @ \cup {normalizedTopic} ELSE @,
                !.topicRelationships = MapSet(@, normalizedTopic, EmptyMap)]
    IN  create(norm(topic))

\* addTopic that promotes the record of a known topic and leaves coreTopics
addTopicPromotesRecordOnly(r, topic, isCore) ==
    LET normalizedTopic == norm(topic)
    IN  IF normalizedTopic \in DOMAIN r.discoveredTopics
        THEN IF isCore /\ ~r.discoveredTopics[normalizedTopic].isCore
             THEN [r EXCEPT !.discoveredTopics[normalizedTopic].isCore = TRUE]
             ELSE r
        ELSE addTopicOverwrites(r, topic, isCore)

addTopic(r, topic, isCore) ==
    LET normalizedTopic == norm(topic)
    IN  IF normalizedTopic \in DOMAIN r.discoveredTopics
        THEN IF isCore /\ ~r.discoveredTopics[normalizedTopic].isCore
             THEN [r EXCEPT !.discoveredTopics[normalizedTopic].isCore = TRUE,
                            !.coreTopics = @ \cup {normalizedTopic}]
             ELSE r
        ELSE [r EXCEPT
                !.discoveredTopics = MapSet(@, normalizedTopic,
                    [isCore           |-> isCore,
                     interestLevel    |-> IF isCore THEN 100 ELSE 50,
                     observationCount |-> 0,
                     mentionCount     |-> 0,
                     relatedTopics    |-> <<>>]),
                !.topicOrder = Append(@, normalizedTopic),
                !.coreTopics = IF isCore THEN @ \cup {normalizedTopic} ELSE @,
                !.topicRelationships = MapSet(@, normalizedTopic, EmptyMap)]

incrementRelationship(r, topic1, topic2) ==
    LET rows == IF topic1 \in DOMAIN r.topicRelationships
                THEN r.topicRelationships
                ELSE MapSet(r.topicRelationships, topic1, EmptyMap)
        relationships == rows[topic1]
        currentStrength == Strength(relationships, topic2)
        rows2 == MapSet(rows, topic1, MapSet(relationships, topic2, currentStrength + 1))
    IN  IF topic1 \in DOMAIN r.discoveredTopics
           /\ ~SeqContains(r.discoveredTopics[topic1].relatedTopics, topic2)
        THEN [r EXCEPT !.topicRelationships = rows2,
                       !.discoveredTopics[topic1].relatedTopics = Append(@, topic2)]
        ELSE [r EXCEPT !.topicRelationships = rows2]

\* the pairs (i, j), i < j, of updateTopicRelationships, in loop order
RECURSIVE RelatePairs(_, _, _, _)
RelatePairs(r, topics, i, j) ==
    IF i > Len(topics) THEN r
    ELSE IF j > Len(topics) THEN RelatePairs(r, topics, i + 1, i + 2)
    ELSE RelatePairs(
            incrementRelationship(
                incrementRelationship(r, topics[i], topics[j]), topics[j], topics[i]),
            topics, i, j + 1)

updateTopicRelationships(r, topics) == RelatePairs(r, topics, 1, 2)

\* updateTopicMetadata that creates the record of a key it does not find
updateTopicMetadataCreates(r, topic) ==
    LET live == IF topic \in DOMAIN r.discoveredTopics THEN r
                ELSE addTopic(r, topic, FALSE)
    IN  [live EXCEPT !.discoveredTopics[topic] =
            updateInterestLevel([@ EXCEPT !.mentionCount = @ + 1])]

updateTopicMetadata(r, topic) ==
    IF topic \notin DOMAIN r.discoveredTopics THEN r
    ELSE [r EXCEPT !.discoveredTopics[topic] =
            updateInterestLevel([@ EXCEPT !.mentionCount = @ + 1])]

\* the forEach body that counts the observation and not the mention
ObserveOneSkipsMention(r, topic, uniqueTopics) ==
    LET counted ==
            IF topic \in DOMAIN r.discoveredTopics
            THEN [r EXCEPT !.discoveredTopics[topic] =
                    updateInterestLevel([@ EXCEPT !.observationCount = @ + 1])]
            ELSE r
    IN  updateTopicRelationships(counted, uniqueTopics)

\* the body of the forEach of trackObservation, for one topic of uniqueTopics
ObserveOne(r, topic, uniqueTopics) ==
    LET counted ==
            IF topic \in DOMAIN r.discoveredTopics
            THEN [r EXCEPT !.discoveredTopics[topic] =
                    updateInterestLevel([@ EXCEPT !.observationCount = @ + 1,
                                                  !.mentionCount = @ + 1])]
            ELSE r
    IN  updateTopicRelationships(counted, uniqueTopics)

RECURSIVE ObserveFrom(_, _, _)
ObserveFrom(r, uniqueTopics, i) ==
    IF i > Len(uniqueTopics) THEN r
    ELSE ObserveFrom(ObserveOne(r, uniqueTopics[i], uniqueTopics), uniqueTopics, i + 1)

\* uniqueTopicsOf without the Set: a topic listed twice stays twice
uniqueTopicsOfKeepsDuplicates(r, topics) ==
    [i \in 1..Len(topics) |-> getCanonicalTopic(r, topics[i])]

\* Array.from(new Set(topics.map(t => this.getCanonicalTopic(t))))
uniqueTopicsOf(r, topics) ==
    Dedup([i \in 1..Len(topics) |-> getCanonicalTopic(r, topics[i])])

trackObservation(r, topics) == ObserveFrom(r, uniqueTopicsOf(r, topics), 1)

\* RewriteReferences that leaves the references to the source in place
RewriteReferencesSkips(rows, sourceCanonical, targetCanonical) == rows

\* the rows left after the source's row is deleted, with every reference to the
\* source rewritten to the target
RewriteReferences(rows, sourceCanonical, targetCanonical) ==
    [t \in DOMAIN rows |->
        IF sourceCanonical \in DOMAIN rows[t]
        THEN MapDelete(
                MapSet(rows[t], targetCanonical,
                       Strength(rows[t], sourceCanonical)
                         + Strength(rows[t], targetCanonical)),
                sourceCanonical)
        ELSE rows[t]]

\* the target's row after the source's row is folded into it
FoldRow(targetRelationships, sourceRelationships) ==
    [k \in DOMAIN targetRelationships \cup DOMAIN sourceRelationships |->
        Strength(targetRelationships, k) + Strength(sourceRelationships, k)]

\* mergedMetadata that folds the mentions but not the observations
mergedMetadataKeepsObservations(sourceMetadata, targetMetadata, targetCanonical) ==
    [isCore           |-> targetMetadata.isCore \/ sourceMetadata.isCore,
     interestLevel    |-> Max(targetMetadata.interestLevel, sourceMetadata.interestLevel),
     observationCount |-> targetMetadata.observationCount,
     mentionCount     |-> targetMetadata.mentionCount + sourceMetadata.mentionCount,
     relatedTopics    |-> SeqRemove(
                            Dedup(targetMetadata.relatedTopics
                                    \o sourceMetadata.relatedTopics),
                            targetCanonical)]

\* mergedMetadata that keeps the target's own core flag
mergedMetadataDropsCore(sourceMetadata, targetMetadata, targetCanonical) ==
    [isCore           |-> targetMetadata.isCore,
     interestLevel    |-> Max(targetMetadata.interestLevel, sourceMetadata.interestLevel),
     observationCount |-> targetMetadata.observationCount
                            + sourceMetadata.observationCount,
     mentionCount     |-> targetMetadata.mentionCount + sourceMetadata.mentionCount,
     relatedTopics    |-> SeqRemove(
                            Dedup(targetMetadata.relatedTopics
                                    \o sourceMetadata.relatedTopics),
                            targetCanonical)]

\* the target's metadata after the source's is folded into it
mergedMetadata(sourceMetadata, targetMetadata, targetCanonical) ==
    [isCore           |-> targetMetadata.isCore \/ sourceMetadata.isCore,
     interestLevel    |-> Max(targetMetadata.interestLevel, sourceMetadata.interestLevel),
     observationCount |-> targetMetadata.observationCount
                            + sourceMetadata.observationCount,
     mentionCount     |-> targetMetadata.mentionCount + sourceMetadata.mentionCount,
     relatedTopics    |-> SeqRemove(
                            Dedup(targetMetadata.relatedTopics
                                    \o sourceMetadata.relatedTopics),
                            targetCanonical)]

\* mergeTopic that deletes the source and installs no synonym for it
mergeTopicForgetsSource(r, sourceTopic, targetTopic) ==
    LET merge(sourceCanonical, targetCanonical) ==
            IF sourceCanonical = targetCanonical
               \/ sourceCanonical \notin DOMAIN r.discoveredTopics
               \/ targetCanonical \notin DOMAIN r.discoveredTopics
            THEN [ok |-> FALSE, r |-> r]
            ELSE [ok |-> TRUE,
                  r  |-> [r EXCEPT
                            !.coreTopics = @ \ {sourceCanonical},
                            !.discoveredTopics = MapDelete(@, sourceCanonical),
                            !.topicOrder = SeqRemove(@, sourceCanonical),
                            !.topicRelationships =
                                RewriteReferences(MapDelete(@, sourceCanonical),
                                                  sourceCanonical, targetCanonical)]]
    IN  merge(getCanonicalTopic(r, sourceTopic), getCanonicalTopic(r, targetTopic))

\* the registry after a mergeTopic call and whether it merged: [ok, r]
mergeTopic(r, sourceTopic, targetTopic) ==
    LET merge(sourceCanonical, targetCanonical) ==
            IF sourceCanonical = targetCanonical
            THEN [ok |-> FALSE, r |-> r]
            ELSE IF sourceCanonical \notin DOMAIN r.discoveredTopics
                    \/ targetCanonical \notin DOMAIN r.discoveredTopics
            THEN [ok |-> FALSE, r |-> r]
            ELSE
            LET sourceMetadata == r.discoveredTopics[sourceCanonical]
                targetMetadata == r.discoveredTopics[targetCanonical]
                rows == r.topicRelationships
                targetRelationships ==
                    IF targetCanonical \in DOMAIN rows THEN rows[targetCanonical]
                    ELSE EmptyMap
                folded ==
                    IF sourceCanonical \in DOMAIN rows
                    THEN MapSet(rows, targetCanonical,
                                FoldRow(targetRelationships, rows[sourceCanonical]))
                    ELSE rows
                merged == mergedMetadata(sourceMetadata, targetMetadata,
                                         targetCanonical)
            IN  [ok |-> TRUE,
                 r  |-> [coreTopics |->
                            (IF sourceMetadata.isCore
                             THEN r.coreTopics \cup {targetCanonical}
                             ELSE r.coreTopics) \ {sourceCanonical},
                         discoveredTopics |->
                            MapDelete(MapSet(r.discoveredTopics, targetCanonical, merged),
                                      sourceCanonical),
                         topicOrder |-> SeqRemove(r.topicOrder, sourceCanonical),
                         topicRelationships |->
                            RewriteReferences(MapDelete(folded, sourceCanonical),
                                              sourceCanonical, targetCanonical),
                         synonyms |-> MapSet(r.synonyms, sourceCanonical,
                                             targetCanonical)]]
    IN  merge(getCanonicalTopic(r, sourceTopic), getCanonicalTopic(r, targetTopic))

-----------------------------------------------------------------------------
(* Similarity Resolver *)

\* new Set(key.split(' '))
WordSet(key) == {split(key)[i] : i \in 1..Len(split(key))}

\* the body of the loop of findSimilarTopicByComparison for one existing topic:
\* best is the best match so far with its similarity num / den; threshold in
\* hundredths
ComparisonStep(normalized, threshold, existingTopic, best) ==
    LET better(num, den) ==
            IF existingTopic # normalized
               /\ num * best.den > best.num * den
               /\ num * 100 >= threshold * den
            THEN [match |-> existingTopic, num |-> num, den |-> den]
            ELSE best
    IN  better(Cardinality(WordSet(normalized) \cap WordSet(existingTopic)),
               Cardinality(WordSet(normalized) \cup WordSet(existingTopic)))

\* the iterations lo..hi of the loop over the keys, in the order of the keys,
\* starting from best.  The range is halved so that a long registry is scanned
\* with shallow nesting: the iterations still run in the order of the keys, and
\* the test on the first half (a similarity has a denominator of at least 1)
\* has it computed before the second half starts.
RECURSIVE ComparisonScan(_, _, _, _, _, _)
ComparisonScan(r, normalized, threshold, lo, hi, best) ==
    IF lo > hi THEN best
    ELSE IF lo = hi
    THEN ComparisonStep(normalized, threshold, r.topicOrder[lo], best)
    ELSE LET mid == (lo + hi) \div 2
             first == ComparisonScan(r, normalized, threshold, lo, mid, best)
         IN  IF first.den > 0
             THEN ComparisonScan(r, normalized, threshold, mid + 1, hi, first)
             ELSE first

\* bestMatch = null and bestSimilarity = 0 before the loop
findSimilarTopicByComparison(r, normalized, threshold) ==
    ComparisonScan(r, normalized, threshold, 1, Len(r.topicOrder),
                   [match |-> null, num |-> 0, den |-> 1]).match

\* protected similarityThreshold = 0.85, in hundredths
similarityThreshold == 85

\* the registry size from which findSimilarTopic asks the oracle
LargeRegistry == 100

\* findSimilarTopicViaLLM that takes the oracle's match whatever its similarity
findSimilarTopicViaLLMAcceptsAny(threshold, response) ==
    IF response.kind = "json" /\ response.mostSimilar \notin {null, <<>>}
    THEN response.mostSimilar
    ELSE null

\* what findSimilarTopicViaLLM returns once generateText has settled with
\* response: a rejection (a failure or a timeout of the call), a text without
\* {...}, a {...} that JSON.parse refuses, or a parsed object
findSimilarTopicViaLLM(threshold, response) ==
    IF response.kind = "json"
       /\ response.mostSimilar \notin {null, <<>>}
       /\ response.similarity >= threshold
    THEN response.mostSimilar
    ELSE null

\* whether findSimilarTopic reaches findSimilarTopicViaLLM
asksOracle(r, topic) ==
    LET normalized == norm(topic)
    IN  /\ normalized \notin DOMAIN r.discoveredTopics
        /\ normalized \notin DOMAIN r.synonyms
        /\ Cardinality(DOMAIN r.discoveredTopics) >= LargeRegistry

\* llm: what findSimilarTopicViaLLM returns (null on any failure or low score)
findSimilarTopic(r, topic, threshold, llm) ==
    LET normalized == norm(topic)
    IN  IF normalized \in DOMAIN r.discoveredTopics THEN normalized
        ELSE IF normalized \in DOMAIN r.synonyms THEN r.synonyms[normalized]
        ELSE IF Cardinality(DOMAIN r.discoveredTopics) < LargeRegistry
        THEN findSimilarTopicByComparison(r, normalized, threshold)
        ELSE llm


Idle == [pc |-> "idle"]

\* the constructor's load and initialize() have completed
Ready == [pc |-> "ready"]

NoCall == [op |-> "constructor", args |-> <<>>, ret |-> null]

\* no write of saveTopics is in flight and the store completed none
NoSaves == [pending |-> <<>>, written |-> null]

\* a GuidedTopicManager after construction: nothing queued, no flush, no call
\* a PythonServiceClient on which nothing was called
NoClient ==
    /\ client = [isConnected |-> FALSE, connecting |-> FALSE,
                 serviceProcess |-> null]
    /\ service = [listening |-> FALSE, model_loaded |-> FALSE, script |-> TRUE]
    /\ calls = <<>>

NoIntake ==
    /\ textBuffer = <<>>
    /\ processingBatch = FALSE
    /\ queued = 0
    /\ flushes = <<>>
    /\ guided = [pc |-> "idle", calls |-> 0]
    /\ requests = <<>>

\* what cacheManager.get returns for a key the store does not hold
undefined == [undefined |-> TRUE]

\* the property name __proto__
ProtoKey == <<"_", "_", "p", "r", "o", "t", "o", "_", "_">>

\* a property name that is an array index ("0", "7", "10")
IsArrayIndex(key) ==
    /\ key # <<>>
    /\ \A i \in 1..Len(key) : key[i] \in Digits
    /\ (Len(key) = 1 \/ key[1] # "0")

RECURSIVE ToNumber(_)
ToNumber(key) ==
    IF key = <<>> THEN 0
    ELSE 10 * ToNumber(SubSeq(key, 1, Len(key) - 1))
         + (CHOOSE d \in 0..9 : ToString(d) = key[Len(key)])

RECURSIVE ascending(_)
ascending(keys) ==
    IF keys = <<>> THEN <<>>
    ELSE LET least == CHOOSE i \in 1..Len(keys) :
                         \A j \in 1..Len(keys) : ToNumber(keys[i]) <= ToNumber(keys[j])
         IN  <<keys[least]>>
             \o ascending(SubSeq(keys, 1, least - 1) \o SubSeq(keys, least + 1, Len(keys)))

\* the own property names of a plain object whose properties were created in
\* the order created: array indices ascending, then the other names in
\* creation order
OwnPropertyKeys(created) ==
    ascending(SelectSeq(created, IsArrayIndex))
    \o SelectSeq(created, LAMBDA key : ~IsArrayIndex(key))

\* a plain object is modelled as the array Object.entries gives for it
HasOwn(obj, key) == \E i \in 1..Len(obj) : obj[i][1] = key

GetOwn(obj, key) == obj[CHOOSE i \in 1..Len(obj) : obj[i][1] = key][2]

OwnKeys(obj) == [i \in 1..Len(obj) |-> obj[i][1]]

\* an order of the elements of a set or of the keys of a map whose insertion
\* order the registry does not record
RECURSIVE InOrder(_)
InOrder(S) ==
    IF S = {} THEN <<>>
    ELSE LET x == CHOOSE y \in S : TRUE IN <<x>> \o InOrder(S \ {x})

\* Object.fromEntries(map), for a map whose keys were inserted in order
ObjectFromEntries(order, map) ==
    LET keys == OwnPropertyKeys(order)
    IN  [i \in 1..Len(keys) |-> <<keys[i], map[keys[i]]>>]

\* obj[key] = value on an object created by {}: the name __proto__ reaches the
\* setter of Object.prototype and creates no own property
AssignProperty(obj, key, value) ==
    IF key = ProtoKey THEN obj
    ELSE IF HasOwn(obj, key)
         THEN [i \in 1..Len(obj) |-> IF obj[i][1] = key THEN <<key, value>> ELSE obj[i]]
         ELSE LET keys == OwnPropertyKeys(OwnKeys(obj) \o <<key>>)
              IN  [i \in 1..Len(keys) |->
                      IF keys[i] = key THEN <<key, value>>
                      ELSE <<keys[i], GetOwn(obj, keys[i])>>]

\* for (const [topic, relations] of this.topicRelationships.entries())
\*     relationshipsObj[topic] = Object.fromEntries(relations)
RECURSIVE relationshipsObjFrom(_, _, _)
relationshipsObjFrom(rows, topics, obj) ==
    IF topics = <<>> THEN obj
    ELSE relationshipsObjFrom(rows, Tail(topics),
             AssignProperty(obj, Head(topics),
                 ObjectFromEntries(InOrder(DOMAIN rows[Head(topics)]),
                                   rows[Head(topics)])))

\* new Map(Object.entries(obj))
MapFromEntries(obj) ==
    [key \in Range(OwnKeys(obj)) |-> GetOwn(obj, key)]

\* the snapshot saveTopics hands to the cache manager
saveTopics(r) ==
    [coreTopics         |-> InOrder(r.coreTopics),
     discoveredTopics   |-> ObjectFromEntries(r.topicOrder, r.discoveredTopics),
     topicRelationships |-> relationshipsObjFrom(r.topicRelationships,
                                InOrder(DOMAIN r.topicRelationships), <<>>),
     synonyms           |-> ObjectFromEntries(InOrder(DOMAIN r.synonyms), r.synonyms)]

\* one more operation is called
Call ==
    /\ steps < MaxSteps
    /\ steps' = steps + 1

\* the registry becomes r and the call is recorded
Commit(r, call) ==
    /\ coreTopics' = r.coreTopics
    /\ discoveredTopics' = r.discoveredTopics
    /\ topicOrder' = r.topicOrder
    /\ topicRelationships' = r.topicRelationships
    /\ synonyms' = r.synonyms
    /\ lastCall' = call

EmptyRegistry ==
    [coreTopics         |-> {},
     discoveredTopics   |-> EmptyMap,
     topicOrder         |-> <<>>,
     topicRelationships |-> EmptyMap,
     synonyms           |-> EmptyMap]

\* allInitialTopics.forEach(topic => this.addTopic(topic, true))
RECURSIVE AddInitialTopics(_, _)
AddInitialTopics(r, topics) ==
    IF topics = <<>> THEN r
    ELSE AddInitialTopics(addTopic(r, Head(topics), TRUE), Tail(topics))

\* the constructor, with the initial topics of the configuration
constructor(initialTopics) == AddInitialTopics(EmptyRegistry, Dedup(initialTopics))

\* the rows of the relationship graph loadTopics builds from the snapshot
restoredRelationships(obj) ==
    [topic \in Range(OwnKeys(obj)) |-> MapFromEntries(GetOwn(obj, topic))]

\* the registry after loadTopics resumes with what the store returned: a
\* snapshot replaces the four collections, no snapshot leaves them alone
loadTopics(r, snapshot) ==
    IF snapshot = undefined THEN r
    ELSE [coreTopics         |-> Range(snapshot.coreTopics),
          discoveredTopics   |-> MapFromEntries(snapshot.discoveredTopics),
          topicOrder         |-> OwnKeys(snapshot.discoveredTopics),
          topicRelationships |-> restoredRelationships(snapshot.topicRelationships),
          synonyms           |-> MapFromEntries(snapshot.synonyms)]

-----------------------------------------------------------------------------
(* Operations of the registry *)

AddTopic ==
    \E topic \in RawTopics, isCore \in BOOLEAN :
        /\ Call
        /\ Commit(addTopic(Registry, topic, isCore),
                  [op |-> "addTopic", args |-> <<>>, ret |-> norm(topic)])
        /\ UNCHANGED <<cached, discovery, boot, pass, saving, guidedVars, normVars, clientVars>>

UpdateTopicMetadata ==
    \E topic \in Keys :
        /\ Call
        /\ Commit(updateTopicMetadata(Registry, topic),
                  [op |-> "updateTopicMetadata", args |-> <<topic>>, ret |-> null])
        /\ UNCHANGED <<cached, discovery, boot, pass, saving, guidedVars, normVars, clientVars>>

TrackObservation ==
    \E topics \in Observations :
        /\ Call
        /\ Commit(trackObservation(Registry, topics),
                  [op |-> "trackObservation",
                   args |-> <<Range(uniqueTopicsOf(Registry, topics)),
                              Len(topics)>>,
                   ret |-> null])
        /\ UNCHANGED <<cached, discovery, boot, pass, saving, guidedVars, normVars, clientVars>>

MergeTopic ==
    \E sourceTopic \in RawTopics, targetTopic \in RawTopics :
        LET res == mergeTopic(Registry, sourceTopic, targetTopic)
        IN  /\ Call
            /\ Commit(res.r,
                      [op |-> "mergeTopic", args |-> <<sourceTopic, targetTopic>>,
                       ret |-> res.ok])
            /\ cached' = IF res.ok THEN saveTopics(res.r) ELSE cached
            /\ UNCHANGED <<discovery, boot, pass, saving, guidedVars, normVars, clientVars>>

\* the answers of the oracle to a similarity request
OracleResponses ==
    {[kind |-> "rejected"], [kind |-> "text"], [kind |-> "malformed"]}
    \cup [kind : {"json"}, mostSimilar : {null, <<"z">>}, similarity : OracleScores]

\* the oracle answers only when it is asked
NotAsked == [kind |-> "not asked"]

FindSimilarTopic ==
    \E topic \in Candidates, threshold \in Thresholds :
        \E response \in IF asksOracle(Registry, topic) THEN OracleResponses
                         ELSE {NotAsked} :
            /\ lastCall' =
                  [op |-> "findSimilarTopic",
                   args |-> <<norm(topic), threshold, response>>,
                   oracle |-> asksOracle(Registry, topic),
                   ret |-> findSimilarTopic(Registry, topic, threshold,
                                findSimilarTopicViaLLM(threshold, response))]
            /\ UNCHANGED <<coreTopics, discoveredTopics, topicOrder,
                           topicRelationships, synonyms, steps, cached,
                           discovery, boot, pass, saving, guidedVars, normVars, clientVars>>

-----------------------------------------------------------------------------
(* TopicManager.discoverTopicsFromText: it suspends at the extraction request  *)
(* and at each await of findSimilarTopic, and other operations run in between *)

\* the loop from its top to its next await: the topics that normalize to the
\* empty string are skipped, and findSimilarTopic runs on the first that does not
RECURSIVE LoopToAwait(_, _, _)
LoopToAwait(r, queue, newTopics) ==
    IF queue = <<>>
    THEN [pc |-> "idle", ret |-> newTopics]
    ELSE LET normalizedTopic == norm(Head(queue))
         IN  IF normalizedTopic = <<>>
             THEN LoopToAwait(r, Tail(queue), newTopics)
             ELSE [pc |-> "resolving",
                   queue |-> Tail(queue),
                   normalizedTopic |-> normalizedTopic,
                   similarTopic |->
                       findSimilarTopic(r, normalizedTopic, similarityThreshold, null),
                   newTopics |-> newTopics]

\* the body of the loop after the await of findSimilarTopic
applyCandidate(r, normalizedTopic, similarTopic) ==
    IF similarTopic # null /\ similarTopic # <<>>
    THEN updateTopicMetadata(
            IF similarTopic # normalizedTopic
            THEN [r EXCEPT !.synonyms = MapSet(@, normalizedTopic, similarTopic)]
            ELSE r,
            similarTopic)
    ELSE addTopic(r, normalizedTopic, FALSE)

\* lastCall while a discovery is suspended, and once it returned newTopics
Discovering == [op |-> "discoverTopicsFromText", args |-> <<>>, ret |-> null]

Discovered(newTopics) ==
    [op |-> "discoverTopicsFromText", args |-> <<>>, ret |-> newTopics]

DiscoverCall ==
    /\ discovery.pc = "idle"
    /\ Call
    /\ discovery' = [pc |-> "extracting"]
    /\ lastCall' = Discovering
    /\ UNCHANGED <<coreTopics, discoveredTopics, topicOrder, topicRelationships,
                   synonyms, cached, boot, pass, saving, guidedVars, normVars, clientVars>>

\* the oracle answers (the empty list stands for a failed or unparseable answer)
DiscoverExtracted ==
    /\ discovery.pc = "extracting"
    /\ \E extractedTopics \in SeqsUpTo(RawTopics, MaxExtract) :
          LET next == LoopToAwait(Registry, extractedTopics, <<>>)
          IN  /\ discovery' = IF next.pc = "idle" THEN Idle ELSE next
              /\ lastCall' = IF next.pc = "idle" THEN Discovered(next.ret)
                              ELSE Discovering
    /\ UNCHANGED <<coreTopics, discoveredTopics, topicOrder, topicRelationships,
                   synonyms, steps, cached, boot, pass, saving, guidedVars, normVars, clientVars>>

DiscoverResume ==
    /\ discovery.pc = "resolving"
    /\ LET similarTopic == discovery.similarTopic
           r == applyCandidate(Registry, discovery.normalizedTopic, similarTopic)
           newTopics ==
               IF similarTopic # null /\ similarTopic # <<>>
               THEN discovery.newTopics
               ELSE Append(discovery.newTopics, discovery.normalizedTopic)
           next == LoopToAwait(r, discovery.queue, newTopics)
       IN  /\ discovery' = IF next.pc = "idle" THEN Idle ELSE next
           /\ Commit(r, IF next.pc = "idle" THEN Discovered(next.ret)
                        ELSE Discovering)
           /\ cached' = IF next.pc = "idle" /\ next.ret # <<>>
                        THEN saveTopics(r) ELSE cached
    /\ UNCHANGED <<steps, boot, pass, saving, guidedVars, normVars, clientVars>>

-----------------------------------------------------------------------------
(* TopicManager.findAndExecuteMerges: it suspends at each await of             *)
(* calculateTopicSimilarity and at each await of mergeTopic, and other         *)
(* operations run in between.  A score is a fraction [num, den].               *)

\* the registry size above which findAndExecuteMerges does nothing
TooManyTopics == 1000

\* the thresholds findAndExecuteMerges is called with, in hundredths
PassThresholds == {0, 90}

\* calculateTopicSimilarity without the boost of related topics
calculateTopicSimilarityLexical(r, topic1, topic2) ==
    [num |-> Cardinality(WordSet(topic1) \cap WordSet(topic2)),
     den |-> Cardinality(WordSet(topic1) \cup WordSet(topic2))]

\* Math.max(Jaccard similarity, Math.min(1.0, strength / 10)), the second only
\* when the row of topic1 has an entry for topic2
calculateTopicSimilarity(r, topic1, topic2) ==
    LET num == Cardinality(WordSet(topic1) \cap WordSet(topic2))
        den == Cardinality(WordSet(topic1) \cup WordSet(topic2))
        rows == r.topicRelationships
    IN  IF topic1 \in DOMAIN rows /\ topic2 \in DOMAIN rows[topic1]
        THEN LET relationshipStrength == Min(10, rows[topic1][topic2])
             IN  IF relationshipStrength * den > num * 10
                 THEN [num |-> relationshipStrength, den |-> 10]
                 ELSE [num |-> num, den |-> den]
        ELSE [num |-> num, den |-> den]

\* similarity >= threshold
AtLeast(similarity, threshold) == similarity.num * 100 >= threshold * similarity.den

\* a[2] > b[2] for two candidates
ScoresHigher(a, b) == a.score.num * b.score.den > b.score.num * a.score.den

\* mergeCandidates.sort((a, b) => b[2] - a[2]): descending, and stable
RECURSIVE InsertCandidate(_, _)
InsertCandidate(sorted, candidate) ==
    IF sorted = <<>> THEN <<candidate>>
    ELSE IF ScoresHigher(candidate, Head(sorted))
         THEN <<candidate>> \o sorted
         ELSE <<Head(sorted)>> \o InsertCandidate(Tail(sorted), candidate)

RECURSIVE sortCandidates(_)
sortCandidates(mergeCandidates) ==
    IF mergeCandidates = <<>> THEN <<>>
    ELSE InsertCandidate(
            sortCandidates(SubSeq(mergeCandidates, 1, Len(mergeCandidates) - 1)),
            mergeCandidates[Len(mergeCandidates)])

\* which of the pair is passed to mergeTopic as its source (the absorbed topic)
\* and which as its target (the survivor)
mergeDirection(sourceMetadata, targetMetadata, source, target) ==
    IF sourceMetadata.isCore /\ ~targetMetadata.isCore
    THEN [absorbed |-> target, survivor |-> source]
    ELSE IF ~sourceMetadata.isCore /\ targetMetadata.isCore
    THEN [absorbed |-> source, survivor |-> target]
    ELSE IF sourceMetadata.observationCount > targetMetadata.observationCount
    THEN [absorbed |-> target, survivor |-> source]
    ELSE [absorbed |-> source, survivor |-> target]

\* findAndExecuteMerges has returned ret; executed is the record of the
\* mergeTopic calls it made
PassReturned(threshold, ret, executed) ==
    [op |-> "findAndExecuteMerges", args |-> <<threshold>>, ret |-> ret,
     executed |-> executed]

\* the loop over the sorted candidates from its top to its next await: the
\* pairs with a processed topic are skipped, and mergeTopic runs to its own
\* await on the first pair that has none.  A pair whose metadata is missing
\* throws, and the catch returns 0.
RECURSIVE ExecuteFrom(_, _, _)
ExecuteFrom(r, p, queue) ==
    IF queue = <<>>
    THEN [pc |-> "idle", r |-> r, saved |-> FALSE, ret |-> p.mergeCount]
    ELSE LET source == Head(queue).source
             target == Head(queue).target
         IN  IF source \in p.processedTopics \/ target \in p.processedTopics
             THEN ExecuteFrom(r, p, Tail(queue))
             ELSE IF source \notin DOMAIN r.discoveredTopics
                     \/ target \notin DOMAIN r.discoveredTopics
             THEN [pc |-> "idle", r |-> r, saved |-> FALSE, ret |-> 0]
             ELSE LET sourceMetadata == r.discoveredTopics[source]
                      targetMetadata == r.discoveredTopics[target]
                      merging(dir, res) ==
                          [pc |-> "merging", r |-> res.r, saved |-> res.ok,
                           queue |-> Tail(queue),
                           call |-> [source |-> source, target |-> target,
                                     score |-> Head(queue).score,
                                     sourceIsCore |-> sourceMetadata.isCore,
                                     targetIsCore |-> targetMetadata.isCore,
                                     sourceObservations |->
                                         sourceMetadata.observationCount,
                                     targetObservations |->
                                         targetMetadata.observationCount,
                                     absorbed |-> dir.absorbed,
                                     survivor |-> dir.survivor,
                                     ok |-> res.ok,
                                     removed |->
                                         IF res.ok
                                         THEN getCanonicalTopic(r, dir.absorbed)
                                         ELSE null]]
                      awaited(dir) ==
                          merging(dir, mergeTopic(r, dir.absorbed, dir.survivor))
                  IN  awaited(mergeDirection(sourceMetadata, targetMetadata,
                                             source, target))

\* the pass goes on from next, the result of ExecuteFrom on the pass record p
Execute(p, next) ==
    /\ Commit(next.r,
              IF next.pc = "idle" THEN PassReturned(p.threshold, next.ret, p.executed)
              ELSE lastCall)
    /\ cached' = IF next.saved THEN saveTopics(next.r) ELSE cached
    /\ pass' = IF next.pc = "idle" THEN Idle
               ELSE [pc |-> "merging", threshold |-> p.threshold,
                     queue |-> next.queue, call |-> next.call,
                     processedTopics |-> p.processedTopics,
                     mergeCount |-> p.mergeCount, executed |-> p.executed]

\* findAndExecuteMerges(threshold) is called: it runs to its first await
PassCall ==
    /\ pass.pc = "idle"
    /\ Call
    /\ \E threshold \in PassThresholds :
          IF Cardinality(DOMAIN discoveredTopics) > TooManyTopics
             \/ Len(topicOrder) < 2
          THEN /\ pass' = Idle
               /\ lastCall' = PassReturned(threshold, 0, <<>>)
          ELSE /\ pass' = [pc |-> "scoring", threshold |-> threshold,
                          topics |-> topicOrder, i |-> 1, j |-> 2,
                          similarity |-> calculateTopicSimilarity(
                                            Registry, topicOrder[1], topicOrder[2]),
                          mergeCandidates |-> <<>>]
               /\ lastCall' = [op |-> "findAndExecuteMerges", args |-> <<threshold>>,
                               ret |-> null, executed |-> <<>>]
    /\ UNCHANGED <<coreTopics, discoveredTopics, topicOrder, topicRelationships,
                   synonyms, cached, discovery, boot, saving, guidedVars, normVars, clientVars>>

\* the await of calculateTopicSimilarity resumes: the pair is kept if it scores
\* at least the threshold, and the next pair is scored; after the last pair the
\* candidates are sorted and the first merge runs
PassScored ==
    /\ pass.pc = "scoring"
    /\ LET topics == pass.topics
           mergeCandidates ==
               IF AtLeast(pass.similarity, pass.threshold)
               THEN Append(pass.mergeCandidates,
                           [source |-> topics[pass.i], target |-> topics[pass.j],
                            score |-> pass.similarity])
               ELSE pass.mergeCandidates
           i == IF pass.j < Len(topics) THEN pass.i ELSE pass.i + 1
           j == IF pass.j < Len(topics) THEN pass.j + 1 ELSE pass.i + 2
       IN  IF j <= Len(topics)
           THEN /\ pass' = [pass EXCEPT
                              !.i = i, !.j = j,
                              !.similarity = calculateTopicSimilarity(
                                                Registry, topics[i], topics[j]),
                              !.mergeCandidates = mergeCandidates]
                /\ UNCHANGED <<coreTopics, discoveredTopics, topicOrder,
                               topicRelationships, synonyms, lastCall, cached>>
           ELSE LET p == [threshold |-> pass.threshold, processedTopics |-> {},
                          mergeCount |-> 0, executed |-> <<>>]
                IN  Execute(p, ExecuteFrom(Registry, p, sortCandidates(mergeCandidates)))
    /\ UNCHANGED <<steps, discovery, boot, saving, guidedVars, normVars, clientVars>>

\* the await of mergeTopic resumes: the absorbed topic is processed, the merge
\* is counted, and the loop goes on
PassMerged ==
    /\ pass.pc = "merging"
    /\ LET p == [threshold |-> pass.threshold,
                 processedTopics |-> pass.processedTopics \cup {pass.call.absorbed},
                 mergeCount |-> pass.mergeCount + 1,
                 executed |-> Append(pass.executed, pass.call)]
       IN  Execute(p, ExecuteFrom(Registry, p, pass.queue))
    /\ UNCHANGED <<steps, discovery, boot, saving, guidedVars, normVars, clientVars>>

-----------------------------------------------------------------------------
(* Specification of the registry *)

Init ==
    /\ \E initialTopics \in SeqsUpTo(RawTopics, MaxInit) :
          LET r == constructor(initialTopics)
          IN  /\ coreTopics = r.coreTopics
              /\ discoveredTopics = r.discoveredTopics
              /\ topicOrder = r.topicOrder
              /\ topicRelationships = r.topicRelationships
              /\ synonyms = r.synonyms
    /\ lastCall = NoCall
    /\ steps = 0
    /\ cached = undefined
    /\ discovery = Idle
    /\ boot = Ready
    /\ pass = Idle
    /\ saving = NoSaves
    /\ NoIntake
    /\ normIn = <<>>
    /\ normOut = <<>>
    /\ NoClient

Next ==
    \/ AddTopic
    \/ UpdateTopicMetadata
    \/ TrackObservation
    \/ MergeTopic
    \/ DiscoverCall
    \/ DiscoverExtracted
    \/ DiscoverResume
    \/ PassCall
    \/ PassScored
    \/ PassMerged

Spec == Init /\ [][Next]_vars

-----------------------------------------------------------------------------
(* Construction and initialize(): the constructor adds the initial topics   *)
(* and calls loadTopics without awaiting it, initialize() awaits a second   *)
(* loadTopics; each load resumes when the store answers                     *)

\* the snapshots the store may hold when a TopicManager is constructed: those
\* an earlier TopicManager saved after a merge
StoredSnapshots ==
    {saveTopics(mergeTopic(constructor(topics), topics[1], topics[2]).r) :
        topics \in {t \in [1..2 -> RawTopics] : norm(t[1]) # norm(t[2])}}

LoadInit ==
    /\ \E initialTopics \in SeqsUpTo(RawTopics, MaxInit) :
          LET r == constructor(initialTopics)
          IN  /\ coreTopics = r.coreTopics
              /\ discoveredTopics = r.discoveredTopics
              /\ topicOrder = r.topicOrder
              /\ topicRelationships = r.topicRelationships
              /\ synonyms = r.synonyms
              /\ boot = [pc |-> "constructed", initialTopics |-> initialTopics,
                         loads |-> 1]
    /\ (cached = undefined \/ cached \in StoredSnapshots)
    /\ lastCall = NoCall
    /\ steps = 0
    /\ discovery = Idle
    /\ pass = Idle
    /\ saving = NoSaves
    /\ NoIntake
    /\ normIn = <<>>
    /\ normOut = <<>>
    /\ NoClient

\* initialize() is called and suspends in its loadTopics
Initialize ==
    /\ boot.pc = "constructed"
    /\ boot' = [boot EXCEPT !.pc = "initializing", !.loads = @ + 1]
    /\ lastCall' = [op |-> "initialize", args |-> <<>>, ret |-> null]
    /\ UNCHANGED <<coreTopics, discoveredTopics, topicOrder, topicRelationships,
                   synonyms, steps, cached, discovery, pass, saving, guidedVars, normVars, clientVars>>

\* the store answers a pending load; the loads resume in the order they were
\* started, and initialize() returns after its own
LoadResumes ==
    /\ boot.pc \in {"constructed", "initializing"}
    /\ boot.loads > 0
    /\ LET r == loadTopics(Registry, cached)
       IN  /\ coreTopics' = r.coreTopics
           /\ discoveredTopics' = r.discoveredTopics
           /\ topicOrder' = r.topicOrder
           /\ topicRelationships' = r.topicRelationships
           /\ synonyms' = r.synonyms
    /\ boot' = [boot EXCEPT !.loads = @ - 1,
                            !.pc = IF boot.pc = "initializing" /\ boot.loads = 1
                                   THEN "initialized" ELSE @]
    /\ UNCHANGED <<lastCall, steps, cached, discovery, pass, saving, guidedVars, normVars, clientVars>>

LoadNext == Initialize \/ LoadResumes

LoadSpec == LoadInit /\ [][LoadNext]_vars

-----------------------------------------------------------------------------
(* Persistence: saveTopics builds the snapshot and hands it to the store     *)
(* before its await; the store completes the write later, other operations  *)
(* run in between, and a loadTopics reads the snapshot back                  *)

\* the topic strings of the persistence specification: "x y", "7", "10" and
\* "__proto__"
PersistTopics == { <<"x", " ", "y">>, <<"7">>, <<"1", "0">>, ProtoKey }

\* the writes that may be in flight at once
MaxSaves == 2

\* the registries saved: the initial topics of a configuration, then possibly
\* one observation that mentions all of them or one merge of the first two
PersistRegistries ==
    LET lists == {topics \in SeqsUpTo(PersistTopics, MaxObs) :
                     \A i, j \in 1..Len(topics) : topics[i] = topics[j] => i = j}
    IN  {constructor(topics) : topics \in lists}
        \cup {trackObservation(constructor(topics), topics) : topics \in lists}
        \cup {mergeTopic(trackObservation(constructor(topics), topics),
                         topics[1], topics[2]).r :
                 topics \in {t \in lists : Len(t) >= 2}}

PersistInit ==
    /\ \E r \in PersistRegistries :
          /\ coreTopics = r.coreTopics
          /\ discoveredTopics = r.discoveredTopics
          /\ topicOrder = r.topicOrder
          /\ topicRelationships = r.topicRelationships
          /\ synonyms = r.synonyms
    /\ boot = [pc |-> "constructed", initialTopics |-> <<>>, loads |-> 0]
    /\ cached = undefined
    /\ lastCall = NoCall
    /\ steps = 0
    /\ discovery = Idle
    /\ pass = Idle
    /\ saving = NoSaves
    /\ NoIntake
    /\ normIn = <<>>
    /\ normOut = <<>>
    /\ NoClient

\* saveTopics is called: the snapshot is built and cacheManager.set is called
\* with it, and saveTopics suspends
SaveTopics ==
    /\ Len(saving.pending) < MaxSaves
    /\ saving' = [saving EXCEPT
                     !.pending = Append(@, [snapshot |-> saveTopics(Registry),
                                            at |-> Registry])]
    /\ lastCall' = [op |-> "saveTopics", args |-> <<>>, ret |-> null]
    /\ UNCHANGED <<coreTopics, discoveredTopics, topicOrder, topicRelationships,
                   synonyms, steps, cached, discovery, boot, pass, guidedVars,
                   normVars, clientVars>>

\* the store completes the oldest write
StoreWrites ==
    /\ saving.pending # <<>>
    /\ cached' = Head(saving.pending).snapshot
    /\ saving' = [pending |-> Tail(saving.pending),
                  written |-> Head(saving.pending).at]
    /\ UNCHANGED <<coreTopics, discoveredTopics, topicOrder, topicRelationships,
                   synonyms, lastCall, steps, discovery, boot, pass, guidedVars,
                   normVars, clientVars>>

PersistNext ==
    \/ SaveTopics
    \/ StoreWrites
    \/ UpdateTopicMetadata
    \/ Initialize
    \/ LoadResumes

PersistSpec == PersistInit /\ [][PersistNext]_vars

-----------------------------------------------------------------------------
(* GuidedTopicManager: queueTextForTopicDiscovery, processBatch and        *)
(* discoverTopicsFromText.  A text is named by its rank among the texts     *)
(* queued; a probability is in hundredths.                                  *)

\* private topicThreshold = 0.65, in hundredths
topicThreshold == 65

\* private batchSize = 50
batchSize == 50

\* the texts queued in one behaviour
MaxTexts == 100

\* the calls of discoverTopicsFromText in one behaviour
MaxGuided == 1

\* the texts of a request for which the service reports candidates
MaxDocs == 1

\* the candidates the service reports for one text
MaxCandidates == 2

\* the labels the service reports: "x y", "y x", "y x z" and the one-letter "z"
GuidedTopics == { <<"x", " ", "y">>, <<"y", " ", "x">>, <<"y", " ", "x", " ", "z">> }

\* the records { topic, is_predefined, probability } the service reports, with
\* probabilities at and just above the threshold
TopicInfos ==
    [topic : GuidedTopics,
     is_predefined : {FALSE}, probability : {topicThreshold, topicThreshold + 1}]
    \cup [topic : GuidedTopics,
          is_predefined : {TRUE}, probability : {topicThreshold + 1}]
    \cup {[topic |-> <<"z">>, is_predefined |-> FALSE,
           probability |-> topicThreshold + 1]}

\* pythonClient.discoverTopics rejected (service unavailable, timeout, error
\* response, unparseable payload)
Rejected == [kind |-> "rejected"]

\* what pythonClient.discoverTopics(texts) settles with: a rejection, or one
\* list of candidates per text for the first texts of the request
discoverTopicsAnswers(texts) ==
    {Rejected}
    \cup {[kind |-> "resolved", topicsPerDoc |-> topicsPerDoc] :
             topicsPerDoc \in SeqsUpTo(SeqsUpTo(TopicInfos, MaxCandidates),
                                       Min(MaxDocs, Len(texts)))}

\* the candidates of the documents 1..n in the order the loops visit them
RECURSIVE candidatesOf(_, _)
candidatesOf(topicsPerDoc, n) ==
    IF n = 0 THEN <<>>
    ELSE candidatesOf(topicsPerDoc, n - 1)
         \o [j \in 1..Len(topicsPerDoc[n]) |-> [doc |-> n, topicInfo |-> topicsPerDoc[n][j]]]

\* discoveredTopics and newTopics of the loops, and the topics each document
\* resolved to
NoTopics(n) == [discoveredTopics |-> <<>>, newTopics |-> <<>>,
                perDoc |-> [i \in 1..n |-> {}]]

Resolved(out, doc, topic) ==
    [out EXCEPT !.discoveredTopics = Append(@, topic),
                !.perDoc[doc] = @ \cup {topic}]

\* the loop over the candidates from its top to its next await: a candidate
\* whose key is shorter than two characters is skipped, a predefined one has
\* its metadata updated, and findSimilarTopic runs on the first other one
RECURSIVE candidatesToAwait(_, _, _)
candidatesToAwait(r, queue, out) ==
    IF queue = <<>>
    THEN [pc |-> "done", r |-> r, out |-> out]
    ELSE LET topicInfo == Head(queue).topicInfo
             normalizedTopic == norm(topicInfo.topic)
         IN  IF Len(normalizedTopic) < 2
             THEN candidatesToAwait(r, Tail(queue), out)
             ELSE IF topicInfo.is_predefined
             THEN candidatesToAwait(updateTopicMetadata(r, normalizedTopic),
                                    Tail(queue),
                                    Resolved(out, Head(queue).doc, normalizedTopic))
             ELSE [pc |-> "resolving", r |-> r, out |-> out,
                   queue |-> Tail(queue),
                   doc |-> Head(queue).doc,
                   topicInfo |-> topicInfo,
                   normalizedTopic |-> normalizedTopic,
                   similarTopic |->
                       findSimilarTopic(r, normalizedTopic, similarityThreshold, null)]

\* the body of the loop that adds a topic at the threshold too
candidateResolvedAtThreshold(r, p) ==
    IF p.similarTopic # null /\ p.similarTopic # <<>>
    THEN [r |-> updateTopicMetadata(r, p.similarTopic),
          out |-> Resolved(p.out, p.doc, p.similarTopic)]
    ELSE IF p.topicInfo.probability >= topicThreshold
    THEN [r |-> addTopic(r, p.normalizedTopic, FALSE),
          out |-> [Resolved(p.out, p.doc, p.normalizedTopic)
                       EXCEPT !.newTopics = Append(@, p.normalizedTopic)]]
    ELSE [r |-> r, out |-> p.out]

\* the body of the loop after the await of findSimilarTopic, for the suspended
\* loop p: the similar topic is used, or a topic is added when the probability
\* is above the threshold
candidateResolved(r, p) ==
    IF p.similarTopic # null /\ p.similarTopic # <<>>
    THEN [r |-> updateTopicMetadata(r, p.similarTopic),
          out |-> Resolved(p.out, p.doc, p.similarTopic)]
    ELSE IF p.topicInfo.probability > topicThreshold
    THEN [r |-> addTopic(r, p.normalizedTopic, FALSE),
          out |-> [Resolved(p.out, p.doc, p.normalizedTopic)
                       EXCEPT !.newTopics = Append(@, p.normalizedTopic)]]
    ELSE [r |-> r, out |-> p.out]

\* a rejection that is counted as a mention of the oldest topic
answeredCountsRejection(r, answer, n) ==
    IF answer.kind = "rejected"
    THEN [pc |-> "caught",
          r |-> IF r.topicOrder = <<>> THEN r
                ELSE updateTopicMetadata(r, r.topicOrder[1]),
          out |-> NoTopics(0)]
    ELSE IF answer.topicsPerDoc = <<>>
    THEN [pc |-> "empty", r |-> r, out |-> NoTopics(0)]
    ELSE LET docs == Min(n, Len(answer.topicsPerDoc))
         IN  candidatesToAwait(r, candidatesOf(answer.topicsPerDoc, docs),
                               NoTopics(docs))

\* what the code after await pythonClient.discoverTopics(...) does with the
\* answer, up to its next await: a rejection is caught, an empty answer
\* returns, and otherwise the loop runs over the candidates of the first n
\* documents at most
answered(r, answer, n) ==
    IF answer.kind = "rejected"
    THEN [pc |-> "caught", r |-> r, out |-> NoTopics(0)]
    ELSE IF answer.topicsPerDoc = <<>>
    THEN [pc |-> "empty", r |-> r, out |-> NoTopics(0)]
    ELSE LET docs == Min(n, Len(answer.topicsPerDoc))
         IN  candidatesToAwait(r, candidatesOf(answer.topicsPerDoc, docs),
                               NoTopics(docs))

\* a batch is started whenever the buffer is full
batchIsDueWhileProcessing(buffer, processing) ==
    Len(buffer) >= batchSize

\* textBuffer.length >= batchSize && !processingBatch
batchIsDue(buffer, processing) ==
    Len(buffer) >= batchSize /\ ~processing

\* processBatch that leaves the oldest text out of its request
processBatchDropsFirst(buffer, caller, rows) ==
    [pc |-> "discovering", caller |-> caller, texts |-> Tail(buffer),
     before |-> rows]

\* processBatch is called for caller with the buffer: it takes the texts and
\* sends the request, or returns at once on an empty buffer
processBatch(buffer, caller, rows) ==
    IF buffer = <<>>
    THEN [pc |-> "returned", caller |-> caller, texts |-> <<>>, before |-> rows]
    ELSE [pc |-> "discovering", caller |-> caller, texts |-> buffer,
          before |-> rows]

\* a request of processBatch or of discoverTopicsFromText to the service
Request(by, texts) == [by |-> by, texts |-> texts]

\* the text is pushed on the buffer, and a batch that is due is started
Queue(text, caller) ==
    LET buffer == Append(textBuffer, text)
    IN  /\ queued' = queued + 1
        /\ IF batchIsDue(buffer, processingBatch)
           THEN /\ processingBatch' = TRUE
                /\ textBuffer' = <<>>
                /\ \E batch \in {processBatch(buffer, caller, topicRelationships)} :
                      /\ flushes' = Append(flushes, batch)
                      /\ requests' = IF batch.pc = "discovering"
                                     THEN Append(requests,
                                                 Request("processBatch", batch.texts))
                                     ELSE requests
           ELSE /\ textBuffer' = buffer
                /\ UNCHANGED <<processingBatch, flushes>>
                /\ requests' = IF caller = "discoverTopicsFromText"
                               THEN Append(requests, Request(caller, <<text>>))
                               ELSE requests

\* queueTextForTopicDiscovery(text) is called
QueueText ==
    /\ queued < MaxTexts
    /\ Queue(queued + 1, "queueTextForTopicDiscovery")
    /\ lastCall' = [op |-> "queueTextForTopicDiscovery", args |-> <<queued + 1>>,
                    ret |-> null]
    /\ UNCHANGED <<coreTopics, discoveredTopics, topicOrder, topicRelationships,
                   synonyms, steps, cached, discovery, boot, pass, saving,
                   guided, normVars, clientVars>>

\* processBatch without its catch: what is thrown leaves the batch and
\* queueTextForTopicDiscovery never runs its next statement
BatchGoesOnUncaught(i, next) ==
    /\ coreTopics' = next.r.coreTopics
    /\ discoveredTopics' = next.r.discoveredTopics
    /\ topicOrder' = next.r.topicOrder
    /\ topicRelationships' = next.r.topicRelationships
    /\ synonyms' = next.r.synonyms
    /\ flushes' =
          [flushes EXCEPT ![i] =
              IF next.pc = "caught"
              THEN [pc |-> "thrown", caller |-> @.caller, texts |-> @.texts,
                    before |-> @.before, caught |-> FALSE]
              ELSE IF next.pc = "empty"
              THEN [pc |-> "returned", caller |-> @.caller, texts |-> @.texts,
                    before |-> @.before, caught |-> FALSE]
              ELSE IF next.pc = "done"
              THEN [pc |-> IF next.out.newTopics # <<>> THEN "saving" ELSE "returned",
                    caller |-> @.caller, texts |-> @.texts, before |-> @.before,
                    out |-> next.out]
              ELSE [pc |-> "resolving", caller |-> @.caller, texts |-> @.texts,
                    before |-> @.before, out |-> next.out, queue |-> next.queue,
                    doc |-> next.doc, topicInfo |-> next.topicInfo,
                    normalizedTopic |-> next.normalizedTopic,
                    similarTopic |-> next.similarTopic]]

\* processBatch goes on from next, the result of candidatesToAwait, as the
\* i-th of the batches in progress
BatchGoesOn(i, next) ==
    /\ coreTopics' = next.r.coreTopics
    /\ discoveredTopics' = next.r.discoveredTopics
    /\ topicOrder' = next.r.topicOrder
    /\ topicRelationships' = next.r.topicRelationships
    /\ synonyms' = next.r.synonyms
    /\ flushes' =
          [flushes EXCEPT ![i] =
              IF next.pc \in {"caught", "empty"}
              THEN [pc |-> "returned", caller |-> @.caller, texts |-> @.texts,
                    before |-> @.before, caught |-> next.pc = "caught"]
              ELSE IF next.pc = "done"
              THEN [pc |-> IF next.out.newTopics # <<>> THEN "saving" ELSE "returned",
                    caller |-> @.caller, texts |-> @.texts, before |-> @.before,
                    out |-> next.out]
              ELSE [pc |-> "resolving", caller |-> @.caller, texts |-> @.texts,
                    before |-> @.before, out |-> next.out, queue |-> next.queue,
                    doc |-> next.doc, topicInfo |-> next.topicInfo,
                    normalizedTopic |-> next.normalizedTopic,
                    similarTopic |-> next.similarTopic]]

\* the service settles the request of a batch
BatchAnswered ==
    \E i \in 1..Len(flushes) :
        /\ flushes[i].pc = "discovering"
        /\ \E answer \in discoverTopicsAnswers(flushes[i].texts) :
              BatchGoesOn(i, answered(Registry, answer, Len(flushes[i].texts)))
        /\ UNCHANGED <<lastCall, steps, cached, discovery, boot, pass, saving,
                       textBuffer, processingBatch, queued, guided, requests,
                       normVars, clientVars>>

\* findSimilarTopic settles for a candidate of a batch
BatchResume ==
    \E i \in 1..Len(flushes) :
        /\ flushes[i].pc = "resolving"
        /\ \E done \in {candidateResolved(Registry, flushes[i])} :
              BatchGoesOn(i, candidatesToAwait(done.r, flushes[i].queue, done.out))
        /\ UNCHANGED <<lastCall, steps, cached, discovery, boot, pass, saving,
                       textBuffer, processingBatch, queued, guided, requests,
                       normVars, clientVars>>

\* a batch that added topics saves the predefined topics and the registry
BatchSaved ==
    \E i \in 1..Len(flushes) :
        /\ flushes[i].pc = "saving"
        /\ flushes' = [flushes EXCEPT ![i].pc = "returned"]
        /\ cached' = saveTopics(Registry)
        /\ UNCHANGED <<coreTopics, discoveredTopics, topicOrder,
                       topicRelationships, synonyms, lastCall, steps, discovery,
                       boot, pass, saving, textBuffer, processingBatch, queued,
                       guided, requests, normVars, clientVars>>

\* processBatch has returned and queueTextForTopicDiscovery goes on:
\* processingBatch = false, and discoverTopicsFromText sends its own request
QueueResumes ==
    \E i \in 1..Len(flushes) :
        /\ flushes[i].pc = "returned"
        /\ flushes' = SubSeq(flushes, 1, i - 1) \o SubSeq(flushes, i + 1, Len(flushes))
        /\ processingBatch' = FALSE
        /\ IF flushes[i].caller = "discoverTopicsFromText"
           THEN /\ guided' = [guided EXCEPT !.pc = "discovering",
                                            !.batchOut = "out" \in DOMAIN flushes[i]]
                /\ requests' = Append(requests,
                                      Request("discoverTopicsFromText", <<guided.text>>))
           ELSE UNCHANGED <<guided, requests>>
        /\ UNCHANGED <<coreTopics, discoveredTopics, topicOrder,
                       topicRelationships, synonyms, lastCall, steps, cached,
                       discovery, boot, pass, saving, textBuffer, queued,
                       normVars, clientVars>>

\* lastCall once GuidedTopicManager.discoverTopicsFromText(text) has returned
GuidedReturned(text, ret, caught) ==
    [op |-> "GuidedTopicManager.discoverTopicsFromText", args |-> <<text>>,
     ret |-> ret, caught |-> caught]

\* discoverTopicsFromText(text) is called: it queues the text, and sends its
\* request unless it has to await a batch first
GuidedCall ==
    /\ guided.pc = "idle"
    /\ guided.calls < MaxGuided
    /\ queued < MaxTexts
    /\ Queue(queued + 1, "discoverTopicsFromText")
    /\ guided' = [pc |-> IF batchIsDue(Append(textBuffer, queued + 1), processingBatch)
                         THEN "queueing" ELSE "discovering",
                  calls |-> guided.calls + 1, text |-> queued + 1,
                  before |-> Registry, batchOut |-> FALSE]
    /\ lastCall' = [op |-> "GuidedTopicManager.discoverTopicsFromText",
                    args |-> <<queued + 1>>, ret |-> null, caught |-> FALSE]
    /\ UNCHANGED <<coreTopics, discoveredTopics, topicOrder, topicRelationships,
                   synonyms, steps, cached, discovery, boot, pass, saving,
                   normVars, clientVars>>

\* discoverTopicsFromText goes on from next, the result of candidatesToAwait
GuidedGoesOn(next) ==
    /\ coreTopics' = next.r.coreTopics
    /\ discoveredTopics' = next.r.discoveredTopics
    /\ topicOrder' = next.r.topicOrder
    /\ topicRelationships' = next.r.topicRelationships
    /\ synonyms' = next.r.synonyms
    /\ IF next.pc \in {"caught", "empty"}
          \/ (next.pc = "done" /\ next.out.newTopics = <<>>)
       THEN /\ guided' = [pc |-> "idle", calls |-> guided.calls]
            /\ lastCall' = GuidedReturned(guided.text, next.out.discoveredTopics,
                                          next.pc = "caught")
       ELSE /\ guided' =
                  IF next.pc = "done"
                  THEN [pc |-> "saving", calls |-> guided.calls,
                        text |-> guided.text, before |-> guided.before,
                        batchOut |-> guided.batchOut, out |-> next.out]
                  ELSE [pc |-> "resolving", calls |-> guided.calls,
                        text |-> guided.text, before |-> guided.before,
                        batchOut |-> guided.batchOut, out |-> next.out,
                        queue |-> next.queue, doc |-> next.doc,
                        topicInfo |-> next.topicInfo,
                        normalizedTopic |-> next.normalizedTopic,
                        similarTopic |-> next.similarTopic]
            /\ UNCHANGED lastCall

\* the service settles the request of discoverTopicsFromText, whose loop runs
\* over topicsData[0]
GuidedAnswered ==
    /\ guided.pc = "discovering"
    /\ \E answer \in discoverTopicsAnswers(<<guided.text>>) :
          GuidedGoesOn(answered(Registry, answer, 1))
    /\ UNCHANGED <<steps, cached, discovery, boot, pass, saving, textBuffer,
                   processingBatch, queued, flushes, requests, normVars, clientVars>>

\* findSimilarTopic settles for a candidate of discoverTopicsFromText
GuidedResume ==
    /\ guided.pc = "resolving"
    /\ \E done \in {candidateResolved(Registry, guided)} :
          GuidedGoesOn(candidatesToAwait(done.r, guided.queue, done.out))
    /\ UNCHANGED <<steps, cached, discovery, boot, pass, saving, textBuffer,
                   processingBatch, queued, flushes, requests, normVars, clientVars>>

\* discoverTopicsFromText added topics: it saves the predefined topics and the
\* registry, and returns discoveredTopics
GuidedSaved ==
    /\ guided.pc = "saving"
    /\ cached' = saveTopics(Registry)
    /\ guided' = [pc |-> "idle", calls |-> guided.calls]
    /\ lastCall' = GuidedReturned(guided.text, guided.out.discoveredTopics, FALSE)
    /\ UNCHANGED <<coreTopics, discoveredTopics, topicOrder, topicRelationships,
                   synonyms, steps, discovery, boot, pass, saving, textBuffer,
                   processingBatch, queued, flushes, requests, normVars, clientVars>>

\* the registries of the batch specifications: no topic, or one of "x y", "y x"
IntakeInit ==
    /\ \E initialTopics \in SeqsUpTo({ <<"x", " ", "y">>, <<"y", " ", "x">> }, 1) :
          LET r == constructor(initialTopics)
          IN  /\ coreTopics = r.coreTopics
              /\ discoveredTopics = r.discoveredTopics
              /\ topicOrder = r.topicOrder
              /\ topicRelationships = r.topicRelationships
              /\ synonyms = r.synonyms
    /\ lastCall = NoCall
    /\ steps = 0
    /\ cached = undefined
    /\ discovery = Idle
    /\ boot = Ready
    /\ pass = Idle
    /\ saving = NoSaves
    /\ NoIntake
    /\ normIn = <<>>
    /\ normOut = <<>>
    /\ NoClient

IntakeNext ==
    \/ QueueText
    \/ BatchAnswered
    \/ BatchResume
    \/ BatchSaved
    \/ QueueResumes

\* texts are queued one by one, and the batches run
IntakeSpec == IntakeInit /\ [][IntakeNext]_vars

\* a GuidedTopicManager on which nothing or batchSize - 1 texts were queued
GuidedInit ==
    /\ \E initialTopics \in SeqsUpTo({ <<"x", " ", "y">>, <<"y", " ", "x">> }, 1) :
          LET r == constructor(initialTopics)
          IN  /\ coreTopics = r.coreTopics
              /\ discoveredTopics = r.discoveredTopics
              /\ topicOrder = r.topicOrder
              /\ topicRelationships = r.topicRelationships
              /\ synonyms = r.synonyms
    /\ lastCall = NoCall
    /\ steps = 0
    /\ cached = undefined
    /\ discovery = Idle
    /\ boot = Ready
    /\ pass = Idle
    /\ saving = NoSaves
    /\ queued \in {0, batchSize - 1}
    /\ textBuffer = [n \in 1..queued |-> n]
    /\ processingBatch = FALSE
    /\ flushes = <<>>
    /\ guided = [pc |-> "idle", calls |-> 0]
    /\ requests = <<>>
    /\ normIn = <<>>
    /\ normOut = <<>>
    /\ NoClient

GuidedNext ==
    \/ GuidedCall
    \/ GuidedAnswered
    \/ GuidedResume
    \/ GuidedSaved
    \/ BatchAnswered
    \/ BatchResume
    \/ BatchSaved
    \/ QueueResumes

\* discoverTopicsFromText is called on a GuidedTopicManager
GuidedSpec == GuidedInit /\ [][GuidedNext]_vars

\* the batches run to their end: a request to the service settles (with an
\* answer, or rejected by the client's timer), findSimilarTopic and the saves
\* settle, and the event loop runs each continuation that is ready
GuidedFairSpec ==
    /\ GuidedSpec
    /\ WF_vars(BatchAnswered)
    /\ WF_vars(BatchResume)
    /\ WF_vars(BatchSaved)
    /\ WF_vars(QueueResumes)

-----------------------------------------------------------------------------
(* Specification of the similarity resolver: findSimilarTopic asked of small *)
(* registries and of registries around the size from which it asks the      *)
(* oracle                                                                   *)

\* the registry the constructor builds from the n initial topics ManyTopics(n):
\* normalizeTopic leaves each of these keys as it is and they are distinct, so
\* each addTopic(topic, true) takes its second branch
constructorOfMany(n) ==
    [coreTopics         |-> Range(ManyTopics(n)),
     discoveredTopics   |->
        [k \in Range(ManyTopics(n)) |->
            [isCore           |-> TRUE,
             interestLevel    |-> 100,
             observationCount |-> 0,
             mentionCount     |-> 0,
             relatedTopics    |-> <<>>]],
     topicOrder         |-> ManyTopics(n),
     topicRelationships |-> [k \in Range(ManyTopics(n)) |-> EmptyMap],
     synonyms           |-> EmptyMap]

ResolveInit ==
    /\ \E r \in {constructor(initialTopics) :
                    initialTopics \in SeqsUpTo(RawTopics, MaxInit)}
               \cup {loadTopics(EmptyRegistry, snapshot) :
                        snapshot \in StoredSnapshots}
               \cup {constructorOfMany(n) :
                        n \in (LargeRegistry - 1)..(LargeRegistry + 1)} :
              /\ coreTopics = r.coreTopics
              /\ discoveredTopics = r.discoveredTopics
              /\ topicOrder = r.topicOrder
              /\ topicRelationships = r.topicRelationships
              /\ synonyms = r.synonyms
    /\ lastCall = NoCall
    /\ steps = 0
    /\ cached = undefined
    /\ discovery = Idle
    /\ boot = Ready
    /\ pass = Idle
    /\ saving = NoSaves
    /\ NoIntake
    /\ normIn = <<>>
    /\ normOut = <<>>
    /\ NoClient

ResolveNext == FindSimilarTopic

ResolveSpec == ResolveInit /\ [][ResolveNext]_vars

-----------------------------------------------------------------------------
(* Specification of the merge pass over topics that co-occur: the topics     *)
(* "x y" and "z", which have no word in common, are live and are observed    *)
(* together CoOccurrences times, alone or with a third topic, before         *)
(* findAndExecuteMerges is called                                            *)

CoOccurring == {<<"x", " ", "y">>, <<"z">>}

\* trackObservation(topics), n times (an observation that changes nothing
\* changes nothing however often it is repeated)
RECURSIVE trackObservations(_, _, _)
trackObservations(r, topics, n) ==
    IF n = 0 THEN r
    ELSE LET observed == trackObservation(r, topics)
         IN  IF observed = r THEN r
             ELSE trackObservations(observed, topics, n - 1)

CoOccurInit ==
    /\ \E initialTopics \in SeqsUpTo(RawTopics, MaxInit),
          topic \in RawTopics, isCore \in BOOLEAN, observation \in Observations :
          \E live \in {addTopic(constructor(initialTopics), topic, isCore)} :
          /\ CoOccurring \subseteq DOMAIN live.discoveredTopics
          /\ CoOccurring \subseteq {norm(observation[i]) : i \in 1..Len(observation)}
          /\ \E r \in {trackObservations(live, observation, CoOccurrences)} :
              /\ coreTopics = r.coreTopics
              /\ discoveredTopics = r.discoveredTopics
              /\ topicOrder = r.topicOrder
              /\ topicRelationships = r.topicRelationships
              /\ synonyms = r.synonyms
    /\ lastCall = NoCall
    /\ steps = 0
    /\ cached = undefined
    /\ discovery = Idle
    /\ boot = Ready
    /\ pass = Idle
    /\ saving = NoSaves
    /\ NoIntake
    /\ normIn = <<>>
    /\ normOut = <<>>
    /\ NoClient

CoOccurNext == PassCall \/ PassScored \/ PassMerged

CoOccurSpec == CoOccurInit /\ [][CoOccurNext]_vars

-----------------------------------------------------------------------------
(* Specification of the normalizer: normalizeTopic applied to a string, and *)
(* then to its own result                                                   *)

NormInit ==
    /\ normIn \in SeqsUpTo(Alphabet, MaxLen)
    /\ normOut = <<>>
    /\ coreTopics = {}
    /\ discoveredTopics = EmptyMap
    /\ topicOrder = <<>>
    /\ topicRelationships = EmptyMap
    /\ synonyms = EmptyMap
    /\ lastCall = NoCall
    /\ steps = 0
    /\ cached = undefined
    /\ discovery = Idle
    /\ boot = Ready
    /\ pass = Idle
    /\ saving = NoSaves
    /\ NoIntake
    /\ NoClient

Normalize ==
    /\ normOut = <<>>
    /\ normOut' = <<normalizeTopic(normIn)>>
    /\ UNCHANGED <<normIn, regVars>>

NormalizeAgain ==
    /\ Len(normOut) = 1
    /\ normOut' = Append(normOut, normalizeTopic(normOut[1]))
    /\ UNCHANGED <<normIn, regVars>>

NormNext == Normalize \/ NormalizeAgain

NormSpec == NormInit /\ [][NormNext]_vars

-----------------------------------------------------------------------------
(* PythonServiceClient: start(), sendRequestWithTimeout() and                *)
(* discoverTopics(), with the service process as the environment            *)

\* the calls made on one client in one behaviour
MaxCalls == 2

\* a call of start() or discoverTopics() that has not settled: pc is the await
\* it is suspended at, request what was sent on a socket for it
Frame(op, pc, request) == [op |-> op, pc |-> pc, request |-> request, ret |-> "pending"]

\* the call has settled with ret: "resolved" or the message of the error
Settled(frame, ret) == [op |-> frame.op, pc |-> "settled", request |-> "none", ret |-> ret]

\* how a request sent on a socket settles: the response of a service that
\* listens, or the rejection of the timer
Responses ==
    {[kind |-> "timeout", status |-> "none", model_loaded |-> FALSE]}
    \cup (IF service.listening
          THEN {[kind |-> "response", status |-> status,
                 model_loaded |-> service.model_loaded] :
                    status \in {"success", "error"}}
          ELSE {})

\* sendRequestWithTimeout(request) up to its promise: it throws when the
\* client is not connected, and sends the request on the main socket otherwise
sendRequestWithTimeout(isConnected) ==
    IF ~isConnected THEN "rejected" ELSE "sent"

\* the catch and the finally of start(): the process this client spawned is
\* killed, and the i-th call settles with the error
StartFails(i, error) ==
    /\ client' = [client EXCEPT !.isConnected = FALSE,
                                !.connecting = FALSE,
                                !.serviceProcess = null]
    /\ service' = IF client.serviceProcess # null
                  THEN [service EXCEPT !.listening = FALSE]
                  ELSE service
    /\ calls' = [calls EXCEPT ![i] = Settled(@, error)]

\* start() is called: it returns when connected or connecting, else it sets
\* connecting and the probe of startPythonService is sent
StartCall ==
    /\ Len(calls) < MaxCalls
    /\ IF client.isConnected \/ client.connecting
       THEN /\ calls' = Append(calls,
                  Settled(Frame("start", "called", "none"), "resolved"))
            /\ UNCHANGED client
       ELSE /\ client' = [client EXCEPT !.connecting = TRUE]
            /\ calls' = Append(calls, Frame("start", "probing", "sent"))
    /\ UNCHANGED <<service, regState, normVars>>

\* discoverTopics(texts) is called: it awaits start() when not connected
DiscoverTopicsCall ==
    /\ Len(calls) < MaxCalls
    /\ IF client.isConnected
       THEN /\ calls' = Append(calls,
                  Frame("discoverTopics", "sending",
                        sendRequestWithTimeout(client.isConnected)))
            /\ UNCHANGED client
       ELSE IF client.connecting
       THEN /\ calls' = Append(calls, Frame("discoverTopics", "started", "none"))
            /\ UNCHANGED client
       ELSE /\ client' = [client EXCEPT !.connecting = TRUE]
            /\ calls' = Append(calls, Frame("discoverTopics", "probing", "sent"))
    /\ UNCHANGED <<service, regState, normVars>>

\* the health check startPythonService sent on its test socket settles: a
\* service that answers success is used, else the script is spawned
ProbeSettles ==
    \E i \in 1..Len(calls) :
        /\ calls[i].pc = "probing"
        /\ \E response \in Responses :
              IF response.kind = "response" /\ response.status = "success"
              THEN /\ calls' = [calls EXCEPT ![i].pc = "connecting",
                                             ![i].request = "none"]
                   /\ UNCHANGED <<client, service>>
              ELSE IF ~service.script
              THEN StartFails(i, "Python script not found")
              ELSE /\ client' = [client EXCEPT !.serviceProcess = <<"ChildProcess">>]
                   /\ calls' = [calls EXCEPT ![i].pc = "spawning",
                                             ![i].request = "none"]
                   /\ UNCHANGED service
        /\ UNCHANGED <<regState, normVars>>

\* the promise of startPythonService settles: the process prints that the
\* service is running, or emits 'error', or the three minutes pass
SpawnSettles ==
    \E i \in 1..Len(calls) :
        /\ calls[i].pc = "spawning"
        /\ \E event \in {"running", "error", "timeout"} :
              IF event = "running" /\ client.serviceProcess # null
              THEN /\ service' = [service EXCEPT !.listening = TRUE]
                   /\ calls' = [calls EXCEPT ![i].pc = "connecting"]
                   /\ UNCHANGED client
              ELSE StartFails(i, IF event = "error" THEN "spawn error"
                                 ELSE "Timeout starting Python service")
        /\ UNCHANGED <<regState, normVars>>

\* the 'exit' handler of the spawned process
ProcessExits ==
    /\ client.serviceProcess # null
    /\ client' = [client EXCEPT !.serviceProcess = null, !.isConnected = FALSE]
    /\ service' = [service EXCEPT !.listening = FALSE]
    /\ UNCHANGED <<calls, regState, normVars>>

\* socket.connect has settled and start() calls sendRequestWithTimeout with
\* the health check
StartChecksHealth ==
    \E i \in 1..Len(calls) :
        /\ calls[i].pc = "connecting"
        /\ calls' = [calls EXCEPT ![i].pc = "checking",
                                  ![i].request =
                                      sendRequestWithTimeout(client.isConnected)]
        /\ UNCHANGED <<client, service, regState, normVars>>

\* the health check of start() settles: start() resolves with isConnected =
\* true when the answer has model_loaded, and rejects otherwise
HealthCheckSettles ==
    \E i \in 1..Len(calls) :
        /\ calls[i].pc = "checking"
        /\ IF calls[i].request = "rejected"
           THEN StartFails(i, "Not connected to Python service")
           ELSE \E response \in Responses :
                   IF response.kind = "timeout"
                   THEN StartFails(i, "Request timed out")
                   ELSE IF response.status = "error"
                   THEN StartFails(i, "Unknown error")
                   ELSE IF ~response.model_loaded
                   THEN StartFails(i, "Topic model not loaded")
                   ELSE /\ client' = [client EXCEPT !.isConnected = TRUE,
                                                    !.connecting = FALSE]
                        /\ calls' = [calls EXCEPT ![i] =
                              IF @.op = "start" THEN Settled(@, "resolved")
                              ELSE Frame(@.op, "started", "none")]
                        /\ UNCHANGED service
        /\ UNCHANGED <<regState, normVars>>

\* discoverTopics goes on after its await of start() and calls
\* sendRequestWithTimeout with the texts
DiscoverTopicsSends ==
    \E i \in 1..Len(calls) :
        /\ calls[i].pc = "started"
        /\ calls' = [calls EXCEPT ![i].pc = "sending",
                                  ![i].request =
                                      sendRequestWithTimeout(client.isConnected)]
        /\ UNCHANGED <<client, service, regState, normVars>>

\* the request of discoverTopics settles
DiscoverTopicsSettles ==
    \E i \in 1..Len(calls) :
        /\ calls[i].pc = "sending"
        /\ IF calls[i].request = "rejected"
           THEN /\ calls' = [calls EXCEPT ![i] = Settled(@, "Not connected to Python service")]
                /\ UNCHANGED client
           ELSE \E response \in Responses :
                   IF response.kind = "timeout"
                   THEN /\ client' = [client EXCEPT !.isConnected = FALSE]
                        /\ calls' = [calls EXCEPT ![i] =
                                        Settled(@, "Request timed out")]
                   ELSE /\ calls' = [calls EXCEPT ![i] =
                              Settled(@, IF response.status = "error"
                                         THEN "Unknown error" ELSE "resolved")]
                        /\ UNCHANGED client
        /\ UNCHANGED <<service, regState, normVars>>

\* a client that was constructed, and a service that runs already or not,
\* with its model loaded or not, and its script in place or not
ClientInit ==
    /\ coreTopics = {}
    /\ discoveredTopics = EmptyMap
    /\ topicOrder = <<>>
    /\ topicRelationships = EmptyMap
    /\ synonyms = EmptyMap
    /\ lastCall = NoCall
    /\ steps = 0
    /\ cached = undefined
    /\ discovery = Idle
    /\ boot = Ready
    /\ pass = Idle
    /\ saving = NoSaves
    /\ NoIntake
    /\ normIn = <<>>
    /\ normOut = <<>>
    /\ client = [isConnected |-> FALSE, connecting |-> FALSE,
                 serviceProcess |-> null]
    /\ service \in [listening : BOOLEAN, model_loaded : BOOLEAN, script : BOOLEAN]
    /\ calls = <<>>

ClientNext ==
    \/ StartCall
    \/ DiscoverTopicsCall
    \/ ProbeSettles
    \/ SpawnSettles
    \/ ProcessExits
    \/ StartChecksHealth
    \/ HealthCheckSettles
    \/ DiscoverTopicsSends
    \/ DiscoverTopicsSettles

\* every await of the client settles: each request has a timer that rejects
\* it, and so has the start of the process
ClientSpec ==
    /\ ClientInit
    /\ [][ClientNext]_vars
    /\ WF_vars(ProbeSettles)
    /\ WF_vars(SpawnSettles)
    /\ WF_vars(StartChecksHealth)
    /\ WF_vars(HealthCheckSettles)
    /\ WF_vars(DiscoverTopicsSends)
    /\ WF_vars(DiscoverTopicsSettles)

-----------------------------------------------------------------------------
(* Properties *)

Live == DOMAIN discoveredTopics

\* the strength of the edge a -> b in the rows rel, 0 when there is none
Weight(rel, a, b) ==
    IF a \in DOMAIN rel /\ b \in DOMAIN rel[a] THEN rel[a][b] ELSE 0

RECURSIVE MentionsOf(_, _)
MentionsOf(topics, S) ==
    IF S = {} THEN 0
    ELSE LET k == CHOOSE x \in S : TRUE
         IN  topics[k].mentionCount + MentionsOf(topics, S \ {k})

RECURSIVE ObservationsOf(_, _)
ObservationsOf(topics, S) ==
    IF S = {} THEN 0
    ELSE LET k == CHOOSE x \in S : TRUE
         IN  topics[k].observationCount + ObservationsOf(topics, S \ {k})

TotalMentions(topics) == MentionsOf(topics, DOMAIN topics)

TotalObservations(topics) == ObservationsOf(topics, DOMAIN topics)

\* the last call was a mergeTopic that returned ok, and no suspended operation
\* can have resumed since
MergeReturned(ok) ==
    /\ lastCall.op = "mergeTopic" /\ lastCall.ret = ok
    /\ pass = Idle /\ discovery = Idle

\* C1: after a mergeTopic(A, B) that returned true, getCanonicalTopic(A) equals
\* getCanonicalTopic(B) and the key of A is not a live topic, whatever A and B
\* (also an A that was already a synonym key).
C1_MergeUnifiesCanonical ==
    MergeReturned(TRUE) =>
        /\ getCanonicalTopic(Registry, lastCall.args[1])
             = getCanonicalTopic(Registry, lastCall.args[2])
        /\ norm(lastCall.args[1]) \notin Live

\* the step is the call of op recorded in lastCall', and not the resumption of
\* an operation that was suspended at an await
Calls(op) == steps' = steps + 1 /\ lastCall'.op = op

\* C2: a successful mergeTopic(source, target) sets the target's mentionCount and
\* observationCount to the sums of the two topics' counts before the call, so the
\* totals over all live topics do not change.
C2_MergeFoldsCounts ==
    [][(Calls("mergeTopic") /\ lastCall'.ret = TRUE) =>
        LET source == getCanonicalTopic(Registry, lastCall'.args[1])
            target == getCanonicalTopic(Registry, lastCall'.args[2])
        IN  /\ target \in DOMAIN discoveredTopics'
            /\ discoveredTopics'[target].mentionCount
                 = discoveredTopics[source].mentionCount
                   + discoveredTopics[target].mentionCount
            /\ discoveredTopics'[target].observationCount
                 = discoveredTopics[source].observationCount
                   + discoveredTopics[target].observationCount
            /\ TotalMentions(discoveredTopics') = TotalMentions(discoveredTopics)
            /\ TotalObservations(discoveredTopics')
                 = TotalObservations(discoveredTopics)]_vars

\* a merge has folded a source into a target that now holds two observations
\* and two mentions
C2_Witness ==
    /\ MergeReturned(TRUE)
    /\ LET target == getCanonicalTopic(Registry, lastCall.args[2])
       IN  /\ target \in Live
           /\ discoveredTopics[target].mentionCount >= 2
           /\ discoveredTopics[target].observationCount >= 2

\* C3: no value of the synonym map is itself a key of the synonym map.
C3_SynonymsOneHop ==
    \A k \in DOMAIN synonyms : synonyms[k] \notin DOMAIN synonyms

\* C4: no key is both a key of the synonym map and a live topic.
C4_SynonymsNotLive == DOMAIN synonyms \cap Live = {}

\* C5: the strength of every edge A -> B equals the strength of B -> A, a missing
\* edge counting as 0.
C5_EdgesSymmetric ==
    \A a, b \in Keys :
        Weight(topicRelationships, a, b) = Weight(topicRelationships, b, a)

\* C6: one trackObservation over n >= 2 distinct canonical topics raises each
\* directional edge between two of them by exactly 1 and changes no other edge.
C6_ObservationAddsOne ==
    [][Calls("trackObservation") =>
        \A a, b \in Keys :
            Weight(topicRelationships', a, b)
              = Weight(topicRelationships, a, b)
                + (IF a # b /\ {a, b} \subseteq lastCall'.args[1] THEN 1 ELSE 0)]_vars

\* C7: normalizeTopic(normalizeTopic(s)) = normalizeTopic(s) for every string s.
C7_NormalizeIdempotent == Len(normOut) = 2 => normOut[2] = normOut[1]

\* the cleaned form of the string has a token
HasToken(cleaned) == \E i \in 1..Len(split(cleaned)) : split(cleaned)[i] # <<>>

\* C8: for an input whose cleaned form has at least one token, normalizeTopic
\* does not remove every token as a stop-word: its result is not empty.
C8_NormalizeKeepsAToken ==
    (Len(normOut) >= 1 /\ HasToken(cleanTopic(normIn))) => normOut[1] # <<>>

\* C9: hasTopic(raw) is true exactly when getCanonicalTopic(raw) is the key of a
\* live topic.
C9_HasTopicIffCanonicalLive ==
    \A raw \in RawTopics :
        hasTopic(Registry, raw) <=> getCanonicalTopic(Registry, raw) \in Live

RegistryUnchanged ==
    UNCHANGED <<coreTopics, discoveredTopics, topicOrder, topicRelationships, synonyms>>

\* C10: mergeTopic returns false, and changes nothing, when its arguments resolve
\* to the same canonical key or one of the canonical keys is not live;
\* updateTopicMetadata on a key that is not live changes nothing.
C10_UnknownKeyIsNoOp ==
    [][/\ Calls("mergeTopic") =>
            LET source == getCanonicalTopic(Registry, lastCall'.args[1])
                target == getCanonicalTopic(Registry, lastCall'.args[2])
            IN  (source = target \/ source \notin Live \/ target \notin Live)
                  => (lastCall'.ret = FALSE /\ RegistryUnchanged)
       /\ (Calls("updateTopicMetadata") /\ lastCall'.args[1] \notin Live)
            => RegistryUnchanged]_vars

\* a mergeTopic call whose source is a live topic and whose target is unknown
\* has returned false
C10_Witness ==
    /\ MergeReturned(FALSE)
    /\ getCanonicalTopic(Registry, lastCall.args[1]) \in Live
    /\ getCanonicalTopic(Registry, lastCall.args[2]) \notin Live

\* C11: mergeTopic is atomic: the step that removes a key from the live topics
\* also installs its synonym, deletes its row and rewrites every edge that
\* pointed to it, and the snapshot handed to the store at the call's only await
\* is the registry after the last of these mutations.
C11_MergeIsAtomic ==
    [][/\ \A k \in Live \ DOMAIN discoveredTopics' :
            /\ k \in DOMAIN synonyms'
            /\ synonyms'[k] \in DOMAIN discoveredTopics'
            /\ k \notin DOMAIN topicRelationships'
            /\ \A t \in DOMAIN topicRelationships' :
                    k \notin DOMAIN topicRelationships'[t]
       /\ (Calls("mergeTopic") /\ lastCall'.ret = TRUE)
            => cached' = saveTopics(Registry')]_vars

\* a merge has removed a source that had an edge from a third topic: the edge
\* now points to the target, and the snapshot in the store is the registry
C11_Witness ==
    /\ MergeReturned(TRUE)
    /\ cached = saveTopics(Registry)
    /\ LET source == norm(lastCall.args[1])
           target == getCanonicalTopic(Registry, lastCall.args[2])
       IN  /\ source \in DOMAIN synonyms
           /\ source \notin Live
           /\ \E t \in Live \ {target} : Weight(topicRelationships, t, target) > 0

\* C12: core status is never lost: a live topic with isCore = true is, after any
\* step, still live with isCore = true, or it was absorbed by a merge and the
\* surviving target it is now a synonym of is live with isCore = true.
C12_CoreNeverLost ==
    [][\A k \in Live : discoveredTopics[k].isCore =>
          IF k \in DOMAIN discoveredTopics'
          THEN discoveredTopics'[k].isCore
          ELSE /\ k \in DOMAIN synonyms'
               /\ synonyms'[k] \in DOMAIN discoveredTopics'
               /\ discoveredTopics'[synonyms'[k]].isCore]_vars

\* a merge has absorbed a source into a target that is core although addTopic
\* never made it core: its interest level is the one of a topic that absorbed a
\* core topic, and it was never observed
C12_Witness ==
    /\ MergeReturned(TRUE)
    /\ LET target == getCanonicalTopic(Registry, lastCall.args[2])
       IN  /\ target \in Live
           /\ discoveredTopics[target].isCore
           /\ discoveredTopics[target].observationCount = 0
           /\ discoveredTopics[target].mentionCount = 0
           /\ norm(lastCall.args[1]) \notin Live
           /\ steps = 2

\* C13: every live topic with isCore = true has interestLevel >= 0.7.
C13_CoreInterestFloor ==
    \A k \in Live : discoveredTopics[k].isCore => discoveredTopics[k].interestLevel >= 70

\* C14: after construction with a list of initial topics and a completed
\* initialize(), the normalized key of every initial topic is a live topic with
\* isCore = true, whatever snapshot the store returned to the two loads.
C14_InitialTopicsAreCore ==
    boot.pc = "initialized" =>
        \A i \in 1..Len(boot.initialTopics) :
            LET key == norm(boot.initialTopics[i])
            IN  key \in Live /\ discoveredTopics[key].isCore

JaccardNum(a, b) == Cardinality(WordSet(a) \cap WordSet(b))

JaccardDen(a, b) == Cardinality(WordSet(a) \cup WordSet(b))

\* the live keys whose similarity to the candidate is at least the threshold
Qualifying(candidate, threshold) ==
    {k \in Live : JaccardNum(candidate, k) * 100 >= threshold * JaccardDen(candidate, k)}

\* among them the first, in registry order, of those with the highest similarity
BestQualifying(candidate, threshold) ==
    LET Q == Qualifying(candidate, threshold)
        top == {k \in Q : \A q \in Q :
                   JaccardNum(candidate, k) * JaccardDen(candidate, q)
                     >= JaccardNum(candidate, q) * JaccardDen(candidate, k)}
        first == CHOOSE i \in 1..Len(topicOrder) :
                    /\ topicOrder[i] \in top
                    /\ \A j \in 1..(i - 1) : topicOrder[j] \notin top
    IN  topicOrder[first]

FoundSimilar == lastCall.op = "findSimilarTopic"

\* the candidate of the last findSimilarTopic has no exact and no synonym match
Unmatched ==
    /\ lastCall.args[1] \notin Live
    /\ lastCall.args[1] \notin DOMAIN synonyms

\* C15: for a candidate with no exact and no synonym match and a registry of
\* fewer than 100 topics, findSimilarTopic does not ask the oracle and returns
\* the first key, in registry order, of highest Jaccard similarity among the keys
\* with similarity >= threshold, and none exactly when there is no such key; for
\* every threshold, 0 included.
C15_ComparisonPicksBest ==
    (FoundSimilar /\ Unmatched /\ Cardinality(Live) < LargeRegistry) =>
        /\ ~lastCall.oracle
        /\ IF Qualifying(lastCall.args[1], lastCall.args[2]) = {}
           THEN lastCall.ret = null
           ELSE lastCall.ret = BestQualifying(lastCall.args[1], lastCall.args[2])

\* C16: for a candidate with no exact and no synonym match and a registry of 100
\* or more topics, findSimilarTopic returns the oracle's mostSimilar only if the
\* oracle's similarity is >= threshold, and none when the call is rejected, the
\* answer has no parseable object, the match is null or the similarity is below
\* the threshold; it changes no collection of the registry.
C16_OracleAnswerIsChecked ==
    [][(/\ lastCall'.op = "findSimilarTopic"
        /\ lastCall'.args[1] \notin Live
        /\ lastCall'.args[1] \notin DOMAIN synonyms
        /\ Cardinality(Live) >= LargeRegistry) =>
        LET threshold == lastCall'.args[2]
            response == lastCall'.args[3]
        IN  /\ RegistryUnchanged
            /\ lastCall'.oracle
            /\ lastCall'.ret # null =>
                  /\ response.kind = "json"
                  /\ lastCall'.ret = response.mostSimilar
                  /\ response.similarity >= threshold
            /\ (\/ response.kind # "json"
                \/ response.mostSimilar = null
                \/ response.similarity < threshold) => lastCall'.ret = null]_vars

\* the oracle was asked about a registry of 100 topics and its match, reported
\* with a similarity of exactly the threshold, was returned
C16_Witness ==
    /\ FoundSimilar
    /\ Unmatched
    /\ Cardinality(Live) = LargeRegistry
    /\ lastCall.oracle
    /\ lastCall.args[3].kind = "json"
    /\ lastCall.args[3].similarity = lastCall.args[2]
    /\ lastCall.ret = <<"z">>

\* the mergeTopic calls of the merge pass that is pending or has just returned
PassLog ==
    IF pass.pc = "merging" THEN Append(pass.executed, pass.call)
    ELSE IF pass.pc = "idle" /\ lastCall.op = "findAndExecuteMerges"
    THEN lastCall.executed
    ELSE <<>>

\* C17: within one pass the pairs are executed in descending score order, and
\* no topic of an executed pair takes part in a later executed pair, as the
\* absorbed side or as the survivor.
C17_OneMergePerTopic ==
    \A i, j \in 1..Len(PassLog) :
        i < j =>
            /\ ~ScoresHigher(PassLog[j], PassLog[i])
            /\ {PassLog[i].source, PassLog[i].target}
                 \cap {PassLog[j].source, PassLog[j].target} = {}

\* C18: for every merge a pass executes on a pair: if exactly one of the two is
\* core it survives; otherwise the one with the strictly higher observationCount
\* survives; the other is passed to mergeTopic as source and is the key removed
\* from the live topics.
C18_CoreThenObservationsSurvive ==
    \A i \in 1..Len(PassLog) :
        LET e == PassLog[i]
        IN  /\ (e.sourceIsCore /\ ~e.targetIsCore) => e.survivor = e.source
            /\ (~e.sourceIsCore /\ e.targetIsCore) => e.survivor = e.target
            /\ (e.sourceIsCore = e.targetIsCore
                  /\ e.sourceObservations > e.targetObservations)
                 => e.survivor = e.source
            /\ (e.sourceIsCore = e.targetIsCore
                  /\ e.sourceObservations < e.targetObservations)
                 => e.survivor = e.target
            /\ {e.absorbed, e.survivor} = {e.source, e.target}
            /\ e.removed = e.absorbed

\* the number of mergeTopic calls of the log that removed a topic
RECURSIVE Removals(_)
Removals(log) ==
    IF log = <<>> THEN 0
    ELSE (IF Head(log).ok THEN 1 ELSE 0) + Removals(Tail(log))

\* C19: the number findAndExecuteMerges returns is the number of topics its
\* mergeTopic calls removed from the live topics.
C19_CountIsMergesPerformed ==
    (pass.pc = "idle" /\ lastCall.op = "findAndExecuteMerges") =>
        lastCall.ret = Removals(lastCall.executed)

\* the first merge pass after the observations has returned
FirstPassReturned ==
    /\ steps = 1
    /\ pass.pc = "idle"
    /\ lastCall.op = "findAndExecuteMerges"

\* one of the two co-occurring topics was absorbed, in the pass that returned,
\* by a merge with a third topic
Consumed ==
    \E i \in 1..Len(lastCall.executed) :
        LET e == lastCall.executed[i]
        IN  e.ok /\ e.removed \in CoOccurring /\ {e.source, e.target} # CoOccurring

\* the pass that returned merged the two co-occurring topics, on a score of 1
MergedOnStrength ==
    \E i \in 1..Len(lastCall.executed) :
        LET e == lastCall.executed[i]
        IN  /\ {e.source, e.target} = CoOccurring
            /\ e.score.num = e.score.den
            /\ e.ok

\* C20: two live topics with no word in common that were observed together in 12
\* trackObservation calls score min(1, strength/10) = 1, and
\* findAndExecuteMerges(0.9) merges them unless one of them was consumed earlier
\* in the pass: exactly one of the two is then live, and the other is its synonym.
C20_CoOccurringTopicsMerge ==
    (FirstPassReturned /\ lastCall.args[1] = 90) =>
        \/ Consumed
        \/ /\ MergedOnStrength
           /\ \E a \in CoOccurring, b \in CoOccurring :
                 /\ a \in Live
                 /\ b \notin Live
                 /\ b \in DOMAIN synonyms
                 /\ synonyms[b] = a

\* a pass with threshold 0.9 has merged the two co-occurring topics, neither of
\* which was consumed before: "z" is live and "x y" is its synonym
C20_Witness ==
    /\ FirstPassReturned
    /\ lastCall.args[1] = 90
    /\ ~Consumed
    /\ MergedOnStrength
    /\ <<"z">> \in Live
    /\ <<"x", " ", "y">> \in DOMAIN synonyms
    /\ discoveredTopics[<<"z">>].observationCount >= 2 * CoOccurrences

\* C27: a topic is never destroyed: a key that is a live topic or a key of the
\* synonym map is, after any step of addTopic, updateTopicMetadata,
\* trackObservation, discovery, mergeTopic and the merge pass, still a live
\* topic or a key of the synonym map.
C27_TopicNeverDestroyed ==
    [][\A k \in Live \cup DOMAIN synonyms :
          k \in DOMAIN discoveredTopics' \cup DOMAIN synonyms']_vars

\* a merge pass has returned after it absorbed a topic: the key of the topic
\* is no longer live and is a key of the synonym map
C27_Witness ==
    /\ pass = Idle
    /\ lastCall.op = "findAndExecuteMerges"
    /\ \E i \in 1..Len(lastCall.executed) :
          /\ lastCall.executed[i].ok
          /\ lastCall.executed[i].removed \in DOMAIN synonyms \ Live

\* the record of topic k is the same in discoveredTopics' as in
\* discoveredTopics, but for a promotion to core
SameRecord(k) ==
    /\ k \in DOMAIN discoveredTopics'
    /\ discoveredTopics'[k].mentionCount = discoveredTopics[k].mentionCount
    /\ discoveredTopics'[k].observationCount = discoveredTopics[k].observationCount
    /\ discoveredTopics'[k].interestLevel = discoveredTopics[k].interestLevel
    /\ discoveredTopics'[k].relatedTopics = discoveredTopics[k].relatedTopics
    /\ discoveredTopics[k].isCore => discoveredTopics'[k].isCore

\* the record of topic k in discoveredTopics' is the one of a new topic
FreshRecord(k) ==
    /\ k \in DOMAIN discoveredTopics'
    /\ discoveredTopics'[k].mentionCount = 0
    /\ discoveredTopics'[k].observationCount = 0
    /\ discoveredTopics'[k].relatedTopics = <<>>
    /\ discoveredTopics'[k].interestLevel
          = IF discoveredTopics'[k].isCore THEN 100 ELSE 50

\* the step resumes a discovery whose candidate found no similar topic: it
\* calls addTopic on the candidate
DiscoveryAdds ==
    /\ discovery.pc = "resolving"
    /\ discovery' # discovery
    /\ discovery.similarTopic \in {null, <<>>}

C29_ObservationCountsOnce ==
    [][Calls("trackObservation") =>
        /\ DOMAIN discoveredTopics' = Live
        /\ \A k \in Live :
              LET named == IF k \in lastCall'.args[1] THEN 1 ELSE 0
              IN  /\ discoveredTopics'[k].observationCount
                        = discoveredTopics[k].observationCount + named
                  /\ discoveredTopics'[k].mentionCount
                        = discoveredTopics[k].mentionCount + named]_vars

\* the first call is an observation that lists three strings for two
\* canonical topics, both live: each has been counted once
C29_Witness ==
    /\ lastCall.op = "trackObservation"
    /\ pass = Idle /\ discovery = Idle
    /\ steps = 1
    /\ lastCall.args[2] = 3
    /\ Cardinality(lastCall.args[1]) = 2
    /\ lastCall.args[1] \subseteq Live
    /\ \A k \in lastCall.args[1] :
          /\ discoveredTopics[k].observationCount = 1
          /\ discoveredTopics[k].mentionCount = 1

\* the weighted edges of a relationship graph
Adjacency(rows) ==
    UNION {{<<topic, neighbour, rows[topic][neighbour]>> :
               neighbour \in DOMAIN rows[topic]} : topic \in DOMAIN rows}

\* a loadTopics resumes with a snapshot of the store
LoadRestores == boot'.loads < boot.loads /\ cached # undefined

\* C30: a snapshot written by saveTopics and read back by loadTopics restores
\* the core-topic set, the record of every topic key, the weight of every
\* topic-neighbour pair and the synonym map of the registry as it was at the
\* instant saveTopics was called, whatever ran between the call, the write of
\* the store and the load
C30_RoundTripRestoresRegistry ==
    [][LoadRestores =>
          /\ coreTopics' = saving.written.coreTopics
          /\ discoveredTopics' = saving.written.discoveredTopics
          /\ Adjacency(topicRelationships')
                = Adjacency(saving.written.topicRelationships)
          /\ synonyms' = saving.written.synonyms]_vars

\* the texts 1..n in the order they were queued
TextsTo(n) == [i \in 1..n |-> i]

\* C21: from an empty buffer with no batch in progress, the first
\* batchSize - 1 texts queued through queueTextForTopicDiscovery cause no
\* request to the service and stay in the buffer in order; the batchSize-th
\* causes exactly one discoverTopics request, which carries the batchSize texts
\* in the order they were queued, and leaves the buffer empty
C21_BatchSizeTextsOneRequest ==
    queued <= batchSize =>
        IF queued < batchSize
        THEN requests = <<>> /\ textBuffer = TextsTo(queued)
        ELSE requests = <<Request("processBatch", TextsTo(batchSize))>>
             /\ textBuffer = <<>>

C21_Witness ==
    /\ queued = batchSize
    /\ lastCall.op = "queueTextForTopicDiscovery"
    /\ lastCall.args = <<batchSize>>
    /\ Len(requests) = 1
    /\ Len(requests[1].texts) = batchSize
    /\ processingBatch

\* the batches whose processBatch has not returned
InProgress(batches) == {i \in 1..Len(batches) : batches[i].pc # "returned"}

\* C22: at most one processBatch is in progress at any time, and a text queued
\* while processingBatch is true starts no batch and sends no request: it is
\* appended to the buffer, and it is not among the texts of the batch in
\* progress
C22_OneBatchAtATime ==
    [][/\ Cardinality(InProgress(flushes')) <= 1
       /\ (queued' = queued + 1 /\ processingBatch) =>
              /\ flushes' = flushes
              /\ requests' = requests
              /\ textBuffer' = Append(textBuffer, queued')
              /\ \A i \in 1..Len(flushes') :
                    \A j \in 1..Len(flushes'[i].texts) :
                        flushes'[i].texts[j] # queued']_vars

C22_Witness ==
    /\ processingBatch
    /\ InProgress(flushes) = {1}
    /\ lastCall.op = "queueTextForTopicDiscovery"
    /\ Len(textBuffer) = batchSize
    /\ textBuffer[batchSize] = lastCall.args[1]
    /\ Len(requests) = 1

\* the i-th batch ends its loop over the candidates in this step
BatchLoopEnds(i) ==
    /\ Len(flushes') = Len(flushes)
    /\ flushes[i].pc \in {"discovering", "resolving"}
    /\ flushes'[i].pc \in {"saving", "returned"}
    /\ "out" \in DOMAIN flushes'[i]

\* C23: when a batch has processed the candidates of the service, every two
\* distinct live topics that the candidates of one text resolved to have the
\* weight of the edge between them raised above what it was when the batch
\* started
C23_BatchRecordsCoOccurrence ==
    [][\A i \in 1..Len(flushes) :
          BatchLoopEnds(i) =>
              \A doc \in DOMAIN flushes'[i].out.perDoc :
                  \A a, b \in flushes'[i].out.perDoc[doc]
                                \cap DOMAIN discoveredTopics' :
                      a # b => Weight(topicRelationships', a, b)
                                  > Weight(flushes'[i].before, a, b)]_vars

\* the loop of the i-th batch, or of discoverTopicsFromText, goes on in this
\* step from its await of findSimilarTopic
BatchResumed(i) ==
    /\ Len(flushes') = Len(flushes)
    /\ flushes[i].pc = "resolving"
    /\ flushes'[i] # flushes[i]

GuidedResumed == guided.pc = "resolving" /\ guided' # guided

\* the resolver found no topic for the candidate of the suspended loop p
NoMatch(p) == p.similarTopic = null \/ p.similarTopic = <<>>

\* the candidate of the suspended loop p is one that may become the topic k
Promoted(p, k) ==
    /\ p.normalizedTopic = k
    /\ ~p.topicInfo.is_predefined
    /\ NoMatch(p)
    /\ p.topicInfo.probability > topicThreshold

\* C24: in discoverTopicsFromText and in processBatch of GuidedTopicManager a
\* topic becomes live only as the key of a candidate that is not predefined,
\* for which findSimilarTopic found nothing and whose probability is above
\* topicThreshold; a candidate without a match whose probability is at most
\* topicThreshold leaves the set of live topics as it is
C24_NewTopicOnlyAboveThreshold ==
    [][/\ \A k \in DOMAIN discoveredTopics' \ Live :
             \/ \E i \in 1..Len(flushes) : BatchResumed(i) /\ Promoted(flushes[i], k)
             \/ GuidedResumed /\ Promoted(guided, k)
       /\ \A i \in 1..Len(flushes) :
             (/\ BatchResumed(i)
              /\ NoMatch(flushes[i])
              /\ flushes[i].topicInfo.probability <= topicThreshold)
             => DOMAIN discoveredTopics' = Live
       /\ (/\ GuidedResumed
           /\ NoMatch(guided)
           /\ guided.topicInfo.probability <= topicThreshold)
          => DOMAIN discoveredTopics' = Live]_vars

\* the batch of a discoverTopicsFromText call added one topic, and its own
\* loop another
C24_Witness ==
    /\ guided.pc = "saving"
    /\ guided.batchOut
    /\ Len(guided.out.newTopics) = 1
    /\ coreTopics = {}
    /\ Cardinality(Live) = 2

\* the candidate key of the suspended loop p has become a synonym of the topic
\* the resolver matched it to, and is no live topic
InstalledAsSynonym(p) ==
    /\ p.normalizedTopic \in DOMAIN synonyms'
    /\ synonyms'[p.normalizedTopic] = p.similarTopic
    /\ p.normalizedTopic \notin DOMAIN discoveredTopics'

\* C25: when findSimilarTopic matched the key of a candidate to a different
\* topic, the loop of discoverTopicsFromText and of processBatch puts the key
\* in the synonym map, pointing to that topic, and creates no record for it
C25_MatchInstallsSynonym ==
    [][/\ \A i \in 1..Len(flushes) :
             (/\ BatchResumed(i)
              /\ ~NoMatch(flushes[i])
              /\ flushes[i].similarTopic # flushes[i].normalizedTopic)
             => InstalledAsSynonym(flushes[i])
       /\ (/\ GuidedResumed
           /\ ~NoMatch(guided)
           /\ guided.similarTopic # guided.normalizedTopic)
          => InstalledAsSynonym(guided)]_vars

\* the four collections are left as they are by this step
CollectionsUnchanged ==
    UNCHANGED <<coreTopics, discoveredTopics, topicOrder, topicRelationships, synonyms>>

\* the request of the i-th batch is rejected in this step
BatchRejected(i) ==
    /\ Len(flushes') = Len(flushes)
    /\ flushes[i].pc = "discovering"
    /\ flushes'[i].pc = "returned"
    /\ "caught" \in DOMAIN flushes'[i]
    /\ flushes'[i].caught

\* the request of discoverTopicsFromText is rejected in this step
GuidedRejected ==
    /\ guided.pc = "discovering"
    /\ guided'.pc = "idle"
    /\ lastCall'.caught

C31_NoSelfEdge ==
    \A topic \in DOMAIN topicRelationships :
        topic \notin DOMAIN topicRelationships[topic]

\* C32: what findSimilarTopic returns is null or the key of a topic that is
\* live when it returns
C32_SimilarTopicIsLive ==
    lastCall.op = "findSimilarTopic" =>
        lastCall.ret = null \/ lastCall.ret \in Live

\* C33: every key of the relationship graph, a row or a neighbour inside a
\* row, is the key of a live topic
C33_GraphKeysAreLive ==
    \A topic \in DOMAIN topicRelationships :
        /\ topic \in Live
        /\ DOMAIN topicRelationships[topic] \subseteq Live

\* C34: coreTopics is exactly the set of live keys whose record has isCore
C34_CoreTopicsMatchIsCore ==
    coreTopics = {topic \in Live : discoveredTopics[topic].isCore}

\* C35: every live topic has mentionCount >= observationCount >= 0
C35_MentionsCoverObservations ==
    \A topic \in Live :
        /\ discoveredTopics[topic].observationCount >= 0
        /\ discoveredTopics[topic].mentionCount >=
               discoveredTopics[topic].observationCount

\* a merge has returned true and left a core and a non-core topic live
C34_Witness ==
    /\ lastCall.op = "mergeTopic"
    /\ lastCall.ret = TRUE
    /\ coreTopics # {}
    /\ \E topic \in Live : ~discoveredTopics[topic].isCore

\* a live topic has been observed and has more mentions than observations
C35_Witness ==
    \E topic \in Live :
        /\ discoveredTopics[topic].observationCount > 0
        /\ discoveredTopics[topic].mentionCount >
               discoveredTopics[topic].observationCount

\* C36: whenever processingBatch is true it is eventually false again, whether
\* the request of the batch is answered, rejected or answered with nothing
C36_FlagIsReleased == processingBatch ~> ~processingBatch

\* the request of a batch was rejected and processBatch has returned, with the
\* flag still set
C36_Witness ==
    /\ processingBatch
    /\ \E i \in 1..Len(flushes) :
          flushes[i].pc = "returned" /\ "caught" \in DOMAIN flushes[i]
                                     /\ flushes[i].caught

\* C37: no queued text is dropped unprocessed: when a batch has returned, the
\* answer of the service was applied for its texts or its texts are in the
\* buffer again
C37_NoTextLost ==
    \A i \in 1..Len(flushes) :
        flushes[i].pc = "returned" =>
            \/ "out" \in DOMAIN flushes[i]
            \/ Range(flushes[i].texts) \subseteq Range(textBuffer)

\* C38: a text is sent to the service at most once: no text is in two of the
\* requests, one of discoverTopicsFromText and one of a batch
C38_TextSentOnce ==
    \A i, j \in 1..Len(requests) :
        i # j => Range(requests[i].texts) \cap Range(requests[j].texts) = {}

\* a start() in progress has reached its health check while a service with
\* its model loaded answers on the port
HealthyStart ==
    /\ service.listening
    /\ service.model_loaded
    /\ \E i \in 1..Len(calls) : calls[i].pc = "connecting"

\* C39: when the service runs and would answer the health check with
\* model_loaded = true, start() comes to resolve with isConnected = true
C39_StartConnects == HealthyStart ~> client.isConnected

====
